---- MODULE Spec2Model ----
(***************************************************************************)
(* TicketHub: user accounts and calendar events kept in a relational      *)
(* store (table usuarios, table eventos), a document store (collection    *)
(* detalhes_eventos) and a cache (Redis).  The HTTP handlers of            *)
(* app/main.py are the actions; the functions of app/crud.py and          *)
(* app/security.py they call are operators on a record of the stores.     *)
(*                                                                         *)
(* Faults.  A request is handed a set F of calls that raise when they are *)
(* reached: the writes of the two stores (insert_one, replace_one,        *)
(* delete_one, the stored procedure, UPDATE, DELETE, commit) and every    *)
(* call of the cache.  The SELECTs and the document look-ups answer.      *)
(*                                                                         *)
(* Payloads (dados_mongo) leave _id to the document store.                *)
(*                                                                         *)
(* Spec takes every request of the event handlers as one step.  SpecContas *)
(* is the account handlers, where a registration and a password update are *)
(* two steps each (ctx holds the requests between their steps) and every   *)
(* statement sees what was last committed.                                 *)
(* SpecSemeado is the event handlers on a table that already has a row,    *)
(* with a document or with a NULL reference.  SpecPassos is one read and   *)
(* one write of events at a time, their calls of the stores and of the     *)
(* cache interleaved.  SpecAgenda is GET /agenda/ on every table of a few  *)
(* rows.  SpecEscritas is two writes of events at a time, call by call,    *)
(* on the sessions of a transactional relational store.  SpecTokens is     *)
(* every endpoint that takes a bearer token, asked with the tokens of an  *)
(* administrator and of a user the administrator can delete.  SpecGrupos   *)
(* is the endpoints that write the table of users.                         *)
(***************************************************************************)
EXTENDS Integers, Sequences, FiniteSets, TLC

VARIABLES usuarios, eventos, mongo, redis, prox_evento, prox_oid, prox_usuario,
          ctx, deletados, resp

vars == <<usuarios, eventos, mongo, redis, prox_evento, prox_oid, prox_usuario,
          ctx, deletados, resp>>

\* ------------------------------------------------------------------ bounds

\* Number of documents the document store may be asked to insert.
MaxEventos == 1

\* Number of users the registrations may add to the seeded ones.
MaxUsuarios == 2

\* ------------------------------------------------------------- python values

\* Python's None where the other values are records.
None == [None |-> TRUE]

\* A NULL of a relational column whose other values are strings.
NULL == "NULL"

\* str(ObjectId): the identifier as the text kept in eventos.mongo_detalhes_id.
str_oid(oid) == ToString(oid)

\* bson ObjectId(text): the identifier a text denotes.
ObjectId(texto) == CHOOSE n \in 1..(MaxEventos + 1) : ToString(n) = texto

\* A datetime is [dia, hora]; str(datetime) separates them by a blank, the
\* ISO form a request carries separates them by "T".
str_datetime(dt) == [str |-> <<dt.dia, " ", dt.hora>>]

\* pydantic's datetime field: takes a datetime, or the text of one.
parse_datetime(x) ==
    IF "str" \in DOMAIN x THEN [dia |-> x.str[1], hora |-> x.str[3]] ELSE x

DataFutura == [dia |-> "2030-01-01", hora |-> "10:00:00"]
DataPassada == [dia |-> "2020-01-01", hora |-> "10:00:00"]

\* The start timestamps that lie after the time of the requests.
Futuras == {DataFutura}

\* ------------------------------------------------------------------ inputs

Lancamento ==
    [id_categoria |-> 3, titulo |-> "Launch", data_hora_inicio |-> DataFutura,
     local_evento |-> "HQ", dados_mongo |-> [speaker |-> "Alice"]]

Revisao ==
    [id_categoria |-> 1, titulo |-> "Review", data_hora_inicio |-> DataFutura,
     local_evento |-> "Lab", dados_mongo |-> [room |-> "B2"]]

Retrospectiva ==
    [id_categoria |-> 3, titulo |-> "Retro", data_hora_inicio |-> DataPassada,
     local_evento |-> "HQ", dados_mongo |-> [speaker |-> "Bob"]]

\* schemas.EventoCriacao: the bodies of POST /eventos/ and PUT /eventos/{id}.
EventoCriacao == {Lancamento, Revisao, Retrospectiva}

\* The event identifiers a request may name.
IdsEvento == {ToString(n) : n \in 1..MaxEventos}

Emails == {"ana@x.io", "bia@x.io", "nobody@x.io"}
Senhas == {"senha-ana", "senha-bia"}

\* schemas.UserCreate: the bodies of POST /register.
UserCreate ==
    {[email |-> e, password |-> "senha-nova", nome_completo |-> "Nova"] :
        e \in {"ana@x.io", "nova@x.io"}}

\* schemas.UserUpdatePassword: the bodies of PUT /users/me/password.
UserUpdatePassword ==
    {[old_password |-> "senha-ana", new_password |-> "senha-nova"],
     [old_password |-> "senha-errada", new_password |-> "senha-nova"],
     [old_password |-> "senha-ana", new_password |-> "senha-ana"]}

\* schemas.ForgotPasswordRequest: the bodies of POST /forgot-password.
ForgotPasswordRequest == {[email |-> e] : e \in {"ana@x.io", "nova@x.io", "nobody@x.io"}}

\* The requests in flight between two of their steps.
Procs == {"p1", "p2"}

\* ----------------------------------------------------------------- hashing

\* passlib bcrypt: a one-way digest of the password.
get_password_hash(password) == [bcrypt |-> password]

verify_password(plain_password, hashed_password) ==
    hashed_password = get_password_hash(plain_password)

\* jose jwt.encode of the claims: a signed token naming the user.
create_access_token(data) == [jwt |-> data]

\* ------------------------------------------------------------ the stores

\* The stores a request works on, as one record.
Bancos ==
    [usuarios |-> usuarios, eventos |-> eventos, mongo |-> mongo, redis |-> redis,
     prox_evento |-> prox_evento, prox_oid |-> prox_oid, prox_usuario |-> prox_usuario]

\* All the elements of a sequence.
Range(s) == {s[i] : i \in DOMAIN s}

\* A function without one point of its domain.
Sem(f, k) == [x \in (DOMAIN f) \ {k} |-> f[x]]

\* Redis SET key value.
redis_set(r, k, v) == [x \in (DOMAIN r) \cup {k} |-> IF x = k THEN v ELSE r[x]]

\* Redis DEL key.
redis_delete(r, k) == [x \in (DOMAIN r) \ {k} |-> r[x]]

\* The cache keys f"agenda:{id_usuario}" and f"evento:{id_evento}".
cache_key_lista(id_usuario) == <<"agenda", id_usuario>>
cache_key_item(id_evento) == <<"evento", id_evento>>

\* Table categorias: the display name the view joins to id_categoria.
nome_categoria(id_categoria) ==
    IF id_categoria = 3 THEN "Palestra" ELSE "Reuniao"

\* The view VIEW_AGENDA_FUTURA_USUARIO: the rows of eventos that start in the
\* future, in the table's order, each with its category's display name.
VIEW_AGENDA_FUTURA_USUARIO(tabela) ==
    LET futuros == SelectSeq(tabela, LAMBDA e : e.data_hora_inicio \in Futuras)
    IN [i \in DOMAIN futuros |->
           [id_evento |-> futuros[i].id_evento,
            id_usuario |-> futuros[i].id_usuario,
            id_categoria |-> futuros[i].id_categoria,
            nome_categoria |-> nome_categoria(futuros[i].id_categoria),
            titulo |-> futuros[i].titulo,
            data_hora_inicio |-> futuros[i].data_hora_inicio,
            local_evento |-> futuros[i].local_evento,
            mongo_detalhes_id |-> futuros[i].mongo_detalhes_id]]

\* The stored procedure SP_ADICIONAR_EVENTO_PRINCIPAL: generates the event's
\* identifier and inserts its row; returns the table and id_novo_evento.
SP_ADICIONAR_EVENTO_PRINCIPAL(db, id_usuario, id_categoria, titulo, data_inicio, local, mongo_id) ==
    LET id_novo_evento == ToString(db.prox_evento)
    IN [eventos |-> Append(db.eventos,
                       [id_evento |-> id_novo_evento,
                        id_usuario |-> id_usuario,
                        id_categoria |-> id_categoria,
                        titulo |-> titulo,
                        data_hora_inicio |-> data_inicio,
                        local_evento |-> local,
                        mongo_detalhes_id |-> mongo_id]),
        prox_evento |-> db.prox_evento + 1,
        id_novo_evento |-> id_novo_evento]

\* What a function of crud.py hands back: the stores as it leaves them, and
\* either a value (ok) or the call whose exception it lets through (erro).
\* levantou: the calls that raised; rollback: db_sql.rollback() was called;
\* mongo_id: the document the call inserted.
Retorno(db, valor, mongo_id) ==
    [bancos |-> db, ok |-> TRUE, valor |-> valor, erro |-> "", levantou |-> {},
     rollback |-> FALSE, mongo_id |-> mongo_id]

Excecao(db, erro, levantou, rollback, mongo_id) ==
    [bancos |-> db, ok |-> FALSE, valor |-> NULL, erro |-> erro, levantou |-> levantou,
     rollback |-> rollback, mongo_id |-> mongo_id]

\* The first call of the list that is in F, or "" when none is.
Primeira(chamadas, F) ==
    LET falhas == SelectSeq(chamadas, LAMBDA c : c \in F)
    IN IF falhas = <<>> THEN "" ELSE Head(falhas)

\* ---------------------------------------------------------- crud: events

\* criar_evento_completo whose except block rolls back and re-raises without
\* deleting the document.
criar_evento_sem_compensacao(db, evento, id_usuario, F) ==
    IF "insert_one" \in F
    THEN Excecao(db, "insert_one", {"insert_one"}, FALSE, NULL)
    ELSE
        LET oid == db.prox_oid
            mongo_id == str_oid(oid)
            db1 == [db EXCEPT !.mongo = (oid :> evento.dados_mongo) @@ @,
                              !.prox_oid = oid + 1]
            e == Primeira(<<"sp_call", "sp_sem_id", "commit">>, F)
            sp == SP_ADICIONAR_EVENTO_PRINCIPAL(db1, id_usuario, evento.id_categoria,
                      evento.titulo, evento.data_hora_inicio, evento.local_evento, mongo_id)
        IN IF e = ""
           THEN Retorno([db1 EXCEPT !.eventos = sp.eventos,
                                    !.prox_evento = sp.prox_evento],
                        sp.id_novo_evento, mongo_id)
           ELSE Excecao(db1, e, {e}, TRUE, mongo_id)

criar_evento_completo(db, evento, id_usuario, F) ==
    IF "insert_one" \in F
    THEN Excecao(db, "insert_one", {"insert_one"}, FALSE, NULL)
    ELSE
        LET oid == db.prox_oid
            mongo_id == str_oid(oid)
            db1 == [db EXCEPT !.mongo = (oid :> evento.dados_mongo) @@ @,
                              !.prox_oid = oid + 1]
            e == Primeira(<<"sp_call", "sp_sem_id", "commit">>, F)
            sp == SP_ADICIONAR_EVENTO_PRINCIPAL(db1, id_usuario, evento.id_categoria,
                      evento.titulo, evento.data_hora_inicio, evento.local_evento, mongo_id)
        IN IF e = ""
           THEN Retorno([db1 EXCEPT !.eventos = sp.eventos,
                                    !.prox_evento = sp.prox_evento],
                        sp.id_novo_evento, mongo_id)
           ELSE IF "delete_one" \in F
                THEN Excecao(db1, "delete_one", {e, "delete_one"}, FALSE, mongo_id)
                ELSE Excecao([db1 EXCEPT !.mongo = Sem(@, ObjectId(mongo_id))],
                             e, {e}, TRUE, mongo_id)

\* obter_agenda_do_banco that keeps only the rows whose document the batch
\* look-up found (an inner join).
obter_agenda_so_com_documento(db, id_usuario) ==
    LET eventos_sql == SelectSeq(VIEW_AGENDA_FUTURA_USUARIO(db.eventos),
                                 LAMBDA e : e.id_usuario = id_usuario)
        achadas == SelectSeq(eventos_sql,
                             LAMBDA e : /\ e.mongo_detalhes_id # NULL
                                        /\ ObjectId(e.mongo_detalhes_id) \in DOMAIN db.mongo)
    IN [i \in DOMAIN achadas |->
           ("detalhes_mongo" :> (("_id" :> achadas[i].mongo_detalhes_id)
                                    @@ db.mongo[ObjectId(achadas[i].mongo_detalhes_id)]))
               @@ achadas[i]]

\* The rows of a query result as dicts, each with its document when the
\* batch look-up found one.
obter_agenda_do_banco(db, id_usuario) ==
    LET eventos_sql == SelectSeq(VIEW_AGENDA_FUTURA_USUARIO(db.eventos),
                                 LAMBDA e : e.id_usuario = id_usuario)
        mongo_ids_str == {e.mongo_detalhes_id : e \in
                             {x \in Range(eventos_sql) : x.mongo_detalhes_id # NULL}}
        mongo_ids_obj == {ObjectId(mid) : mid \in mongo_ids_str}
        detalhes_map == [mid \in {str_oid(o) : o \in mongo_ids_obj \cap DOMAIN db.mongo} |->
                            db.mongo[ObjectId(mid)]]
    IN IF eventos_sql = <<>> THEN <<>>
       ELSE IF mongo_ids_str = {} THEN eventos_sql
       ELSE [i \in DOMAIN eventos_sql |->
                LET mongo_id == eventos_sql[i].mongo_detalhes_id
                IN IF mongo_id \in DOMAIN detalhes_map
                   THEN ("detalhes_mongo" :> (("_id" :> mongo_id) @@ detalhes_map[mongo_id]))
                            @@ eventos_sql[i]
                   ELSE eventos_sql[i]]

get_single_event_by_id(db, id_evento, id_usuario) ==
    LET linhas == SelectSeq(VIEW_AGENDA_FUTURA_USUARIO(db.eventos),
                            LAMBDA e : e.id_usuario = id_usuario /\ e.id_evento = id_evento)
    IN IF linhas = <<>> THEN None
       ELSE LET evento_dict == Head(linhas)
                mongo_id == evento_dict.mongo_detalhes_id
            IN IF mongo_id # NULL /\ ObjectId(mongo_id) \in DOMAIN db.mongo
               THEN ("detalhes_mongo" :>
                        (("_id" :> str_oid(ObjectId(mongo_id))) @@ db.mongo[ObjectId(mongo_id)]))
                        @@ evento_dict
               ELSE evento_dict

\* query_find without its id_usuario predicate.
query_find_sem_dono(db, id_evento, id_usuario) ==
    SelectSeq(db.eventos, LAMBDA e : e.id_evento = id_evento)

\* SELECT mongo_detalhes_id FROM eventos WHERE id_evento AND id_usuario.
query_find(db, id_evento, id_usuario) ==
    SelectSeq(db.eventos, LAMBDA e : e.id_evento = id_evento /\ e.id_usuario = id_usuario)

deletar_evento_completo(db, id_evento, id_usuario, F) ==
    LET evento_sql == query_find(db, id_evento, id_usuario)
    IN IF evento_sql = <<>> THEN Retorno(db, FALSE, NULL)   \* return None
       ELSE
        LET mongo_id == Head(evento_sql).mongo_detalhes_id
            \* DELETE FROM eventos WHERE id_evento, not yet committed
            apagada == SelectSeq(db.eventos, LAMBDA e : e.id_evento # id_evento)
            db_mongo == IF mongo_id # NULL
                        THEN [db EXCEPT !.mongo = Sem(@, ObjectId(mongo_id))]
                        ELSE db
        IN IF "sql_delete" \in F
           THEN Excecao(db, "sql_delete", {"sql_delete"}, TRUE, NULL)
           ELSE IF mongo_id # NULL /\ "delete_one" \in F
           THEN Excecao(db, "delete_one", {"delete_one"}, TRUE, NULL)
           ELSE IF "commit" \in F
           THEN Excecao(db_mongo, "commit", {"commit"}, TRUE, NULL)
           ELSE Retorno([db_mongo EXCEPT !.eventos = apagada], TRUE, NULL)

\* replace_one that adds the replacement's keys to the document's ($set).
replace_one_mescla(colecao, oid, dados) ==
    [o \in DOMAIN colecao |-> IF o = oid THEN dados @@ colecao[o] ELSE colecao[o]]

\* replace_one with upsert=True: makes the document when none matches.
replace_one_upsert(colecao, oid, dados) ==
    [o \in (DOMAIN colecao) \cup {oid} |-> IF o = oid THEN dados ELSE colecao[o]]

\* replace_one(filter, replacement): the matching document's content becomes
\* the replacement; no document is made when none matches.
replace_one(colecao, oid, dados) ==
    [o \in DOMAIN colecao |-> IF o = oid THEN dados ELSE colecao[o]]

\* atualizar_evento_completo that commits the UPDATE before it replaces the
\* document.
atualizar_evento_commit_antes(db, id_evento, id_usuario, evento_data, F) ==
    LET evento_sql == query_find(db, id_evento, id_usuario)
    IN IF evento_sql = <<>> THEN Retorno(db, FALSE, NULL)
       ELSE
        LET mongo_id == Head(evento_sql).mongo_detalhes_id
            atualizada == [i \in DOMAIN db.eventos |->
                             IF db.eventos[i].id_evento = id_evento
                             THEN [db.eventos[i] EXCEPT
                                      !.titulo = evento_data.titulo,
                                      !.id_categoria = evento_data.id_categoria,
                                      !.data_hora_inicio = evento_data.data_hora_inicio,
                                      !.local_evento = evento_data.local_evento]
                             ELSE db.eventos[i]]
            db_sql == [db EXCEPT !.eventos = atualizada]
        IN IF "sql_update" \in F
           THEN Excecao(db, "sql_update", {"sql_update"}, TRUE, NULL)
           ELSE IF "commit" \in F
           THEN Excecao(db, "commit", {"commit"}, TRUE, NULL)
           ELSE IF mongo_id # NULL /\ "replace_one" \in F
           THEN Excecao(db_sql, "replace_one", {"replace_one"}, TRUE, NULL)
           ELSE Retorno(IF mongo_id # NULL
                        THEN [db_sql EXCEPT !.mongo =
                                 replace_one(@, ObjectId(mongo_id), evento_data.dados_mongo)]
                        ELSE db_sql,
                        TRUE, NULL)

atualizar_evento_completo(db, id_evento, id_usuario, evento_data, F) ==
    LET evento_sql == query_find(db, id_evento, id_usuario)
    IN IF evento_sql = <<>> THEN Retorno(db, FALSE, NULL)   \* return None
       ELSE
        LET mongo_id == Head(evento_sql).mongo_detalhes_id
            \* UPDATE eventos SET ... WHERE id_evento, not yet committed
            atualizada == [i \in DOMAIN db.eventos |->
                             IF db.eventos[i].id_evento = id_evento
                             THEN [db.eventos[i] EXCEPT
                                      !.titulo = evento_data.titulo,
                                      !.id_categoria = evento_data.id_categoria,
                                      !.data_hora_inicio = evento_data.data_hora_inicio,
                                      !.local_evento = evento_data.local_evento]
                             ELSE db.eventos[i]]
            db_mongo == IF mongo_id # NULL
                        THEN [db EXCEPT !.mongo =
                                 replace_one(@, ObjectId(mongo_id), evento_data.dados_mongo)]
                        ELSE db
        IN IF "sql_update" \in F
           THEN Excecao(db, "sql_update", {"sql_update"}, TRUE, NULL)
           ELSE IF mongo_id # NULL /\ "replace_one" \in F
           THEN Excecao(db, "replace_one", {"replace_one"}, TRUE, NULL)
           ELSE IF "commit" \in F
           THEN Excecao(db_mongo, "commit", {"commit"}, TRUE, NULL)
           ELSE Retorno([db_mongo EXCEPT !.eventos = atualizada], TRUE, NULL)

\* query_update_sql: UPDATE eventos SET titulo, id_categoria, data_hora_inicio,
\* local_evento WHERE id_evento.
query_update_sql(tabela, id_evento, evento_data) ==
    [i \in DOMAIN tabela |->
        IF tabela[i].id_evento = id_evento
        THEN [tabela[i] EXCEPT !.titulo = evento_data.titulo,
                               !.id_categoria = evento_data.id_categoria,
                               !.data_hora_inicio = evento_data.data_hora_inicio,
                               !.local_evento = evento_data.local_evento]
        ELSE tabela[i]]

\* query_delete: DELETE FROM eventos WHERE id_evento.
query_delete(tabela, id_evento) ==
    SelectSeq(tabela, LAMBDA e : e.id_evento # id_evento)

\* delete_one(filter).
delete_one(colecao, oid) == Sem(colecao, oid)

\* ----------------------------------------------------------- crud: users

get_user_by_email(db, email) ==
    LET achados == {u \in db.usuarios : u.email = email}
    IN IF achados = {} THEN None ELSE CHOOSE u \in achados : TRUE

get_user_by_id_in_db(db, id_usuario) ==
    LET achados == {u \in db.usuarios : u.id_usuario = id_usuario}
    IN IF achados = {} THEN None ELSE CHOOSE u \in achados : TRUE

\* The function FUNC_GERAR_ID_USUARIO: an identifier no user has had.
FUNC_GERAR_ID_USUARIO(db) == ToString(db.prox_usuario)

\* INSERT INTO usuarios: the table with one more row; no key on email stops it.
insert_usuario(tabela, linha) == tabela \cup {linha}

\* create_user that inserts the user in the administrators' group.
create_user_no_grupo_1(db, user, F) ==
    LET hashed_password == get_password_hash(user.password)
        new_user_id == FUNC_GERAR_ID_USUARIO(db)
        linha == [id_usuario |-> new_user_id, id_grupo |-> 1, email |-> user.email,
                  senha_hash |-> hashed_password, nome_completo |-> user.nome_completo]
        e == Primeira(<<"sql_insert", "commit">>, F)
    IN IF e = ""
       THEN Retorno([db EXCEPT !.usuarios = insert_usuario(@, linha),
                               !.prox_usuario = @ + 1],
                    new_user_id, NULL)
       ELSE Excecao(db, e, {e}, FALSE, NULL)

\* INSERT INTO usuarios with id_grupo 2, after FUNC_GERAR_ID_USUARIO.
create_user(db, user, F) ==
    LET hashed_password == get_password_hash(user.password)
        new_user_id == FUNC_GERAR_ID_USUARIO(db)
        linha == [id_usuario |-> new_user_id, id_grupo |-> 2, email |-> user.email,
                  senha_hash |-> hashed_password, nome_completo |-> user.nome_completo]
        e == Primeira(<<"sql_insert", "commit">>, F)
    IN IF e = ""
       THEN Retorno([db EXCEPT !.usuarios = insert_usuario(@, linha),
                               !.prox_usuario = @ + 1],
                    new_user_id, NULL)
       ELSE Excecao(db, e, {e}, FALSE, NULL)

\* update_user_password that does not look at old_password.
update_user_password_sem_verificar(db, id_usuario, data, F) ==
    LET user == get_user_by_id_in_db(db, id_usuario)
        new_hashed_password == get_password_hash(data.new_password)
        e == Primeira(<<"sql_update", "commit">>, F)
    IN IF user = None
       THEN Retorno(db, FALSE, NULL)
       ELSE IF e # ""
       THEN Excecao(db, e, {e}, FALSE, NULL)
       ELSE Retorno([db EXCEPT !.usuarios =
                        {IF u.id_usuario = id_usuario
                         THEN [u EXCEPT !.senha_hash = new_hashed_password]
                         ELSE u : u \in @}],
                    TRUE, NULL)

update_user_password(db, id_usuario, data, F) ==
    LET user == get_user_by_id_in_db(db, id_usuario)
        new_hashed_password == get_password_hash(data.new_password)
        e == Primeira(<<"sql_update", "commit">>, F)
    IN IF user = None \/ ~verify_password(data.old_password, user.senha_hash)
       THEN Retorno(db, FALSE, NULL)
       ELSE IF e # ""
       THEN Excecao(db, e, {e}, FALSE, NULL)
       ELSE Retorno([db EXCEPT !.usuarios =
                        {IF u.id_usuario = id_usuario
                         THEN [u EXCEPT !.senha_hash = new_hashed_password]
                         ELSE u : u \in @}],
                    TRUE, NULL)

\* DELETE FROM usuarios WHERE id_usuario; the value is result.rowcount > 0.
delete_user_by_id(db, id_usuario, F) ==
    LET e == Primeira(<<"sql_delete", "commit">>, F)
        apagados == {u \in db.usuarios : u.id_usuario = id_usuario}
    IN IF e # ""
       THEN Excecao(db, e, {e}, FALSE, NULL)
       ELSE Retorno([db EXCEPT !.usuarios = @ \ apagados], apagados # {}, NULL)

\* UPDATE usuarios SET nome_completo WHERE id_usuario, the commit, and the
\* user read again (None when there is none).
update_user_profile(db, id_usuario, data, F) ==
    LET e == Primeira(<<"sql_update", "commit">>, F)
        db1 == [db EXCEPT !.usuarios =
                   {IF u.id_usuario = id_usuario
                    THEN [u EXCEPT !.nome_completo = data.nome_completo]
                    ELSE u : u \in @}]
    IN IF e # ""
       THEN Excecao(db, e, {e}, FALSE, NULL)
       ELSE Retorno(db1, get_user_by_id_in_db(db1, id_usuario), NULL)

\* UPDATE usuarios SET senha_hash WHERE id_usuario; the value is
\* result.rowcount > 0.
update_password_by_id(db, id_usuario, new_password, F) ==
    LET new_hashed_password == get_password_hash(new_password)
        e == Primeira(<<"sql_update", "commit">>, F)
    IN IF e # ""
       THEN Excecao(db, e, {e}, FALSE, NULL)
       ELSE Retorno([db EXCEPT !.usuarios =
                        {IF u.id_usuario = id_usuario
                         THEN [u EXCEPT !.senha_hash = new_hashed_password]
                         ELSE u : u \in @}],
                    \E u \in db.usuarios : u.id_usuario = id_usuario, NULL)

\* text LIKE '%termo%' under the collation of usuarios, which folds case: the
\* texts of the users' columns in which each search term occurs.
LIKE(texto, termo) ==
    CASE termo = "ana" -> texto \in {"ana@x.io", "Ana"}
      [] termo = "x.io" -> texto \in {"root@x.io", "ana@x.io", "nova@x.io"}
      [] OTHER -> FALSE

\* SELECT ... FROM usuarios WHERE email LIKE :pattern OR nome_completo LIKE
\* :pattern.  The query has no ORDER BY: the rows as a set.
search_users(db, search_term) ==
    {u \in db.usuarios : LIKE(u.email, search_term) \/ LIKE(u.nome_completo, search_term)}

\* ---------------------------------------------------------------- security

\* A token for redefining the password: the claims id_usuario and sub.
create_password_reset_token(id_usuario) ==
    create_access_token([id_usuario |-> id_usuario, sub |-> "password-reset"])

\* The identifier a reset token names, NULL where the code raises the 401:
\* the token's sub must be "password-reset".
decode_password_reset_token(token) ==
    LET payload == token.jwt
    IN IF "sub" \notin DOMAIN payload THEN NULL
       ELSE IF payload.sub # "password-reset" THEN NULL
       ELSE IF "id_usuario" \notin DOMAIN payload THEN NULL
       ELSE payload.id_usuario

\* get_current_active_user that goes by the token's claims when the table has
\* no such user.
get_current_active_user_sem_busca(db, token) ==
    LET achados == {u \in db.usuarios : u.id_usuario = token.jwt.id_usuario}
    IN IF achados # {} THEN CHOOSE u \in achados : TRUE
       ELSE [id_usuario |-> token.jwt.id_usuario, id_grupo |-> 2, email |-> "",
             senha_hash |-> get_password_hash(""), nome_completo |-> ""]

\* The user a bearer token names, None where the code raises the 401.
get_current_active_user(db, token) ==
    LET payload == token.jwt
    IN IF "id_usuario" \notin DOMAIN payload
       THEN None
       ELSE get_user_by_id_in_db(db, payload.id_usuario)

\* get_admin_user that lets every authenticated user through.
get_admin_user_qualquer(current_user) == current_user

\* The dependency get_admin_user on the user get_current_active_user found:
\* the user, None where the code raises the 403.
get_admin_user(current_user) ==
    IF current_user.id_grupo # 1 THEN None ELSE current_user

authenticate_user(db, email, password) ==
    LET user == get_user_by_email(db, email)
    IN IF user = None \/ ~verify_password(password, user.senha_hash)
       THEN None
       ELSE user

\* ------------------------------------------------------- json and schemas

\* json.dumps(evento, default=str): the dict as text; a datetime, which JSON
\* has no form for, goes through str().
json_dumps(evento) ==
    [json |-> [evento EXCEPT !.data_hora_inicio = str_datetime(@)]]

json_dumps_lista(agenda) ==
    [json |-> [i \in DOMAIN agenda |->
                  [agenda[i] EXCEPT !.data_hora_inicio = str_datetime(@)]]]

json_loads(texto) == texto.json

\* response_model=schemas.EventoResposta: the fields of the schema, the start
\* timestamp parsed, detalhes_mongo None when the dict has none.
EventoResposta(d) ==
    [id_categoria |-> d.id_categoria,
     titulo |-> d.titulo,
     data_hora_inicio |-> parse_datetime(d.data_hora_inicio),
     local_evento |-> d.local_evento,
     id_evento |-> d.id_evento,
     nome_categoria |-> d.nome_categoria,
     detalhes_mongo |-> IF "detalhes_mongo" \in DOMAIN d THEN d.detalhes_mongo ELSE None]

\* response_model=List[schemas.EventoResposta].
ListaEventoResposta(agenda) == [i \in DOMAIN agenda |-> EventoResposta(agenda[i])]

\* ----------------------------------------------------------- the handlers

\* What a handler leaves of a request: the operation and its inputs, the HTTP
\* status, body (corpo) and detail, and what happened on the way: the calls
\* that raised (levantou), whether a cache call completed (redis_ok), whether
\* the body came from the cache (cache_hit), whether db_sql.rollback() was
\* called, and the document the request inserted (mongo_id).
Pedido(op, id_usuario, id_evento, entrada) ==
    [op |-> op, id_usuario |-> id_usuario, id_evento |-> id_evento, entrada |-> entrada,
     status |-> 500, corpo |-> None, detalhe |-> "", levantou |-> {},
     redis_ok |-> FALSE, cache_hit |-> FALSE, rollback |-> FALSE, mongo_id |-> NULL]

\* POST /eventos/.  In the answer id_evento is the row the request committed.
api_criar_evento(db, evento, id_usuario, F) ==
    LET c == criar_evento_completo(db, evento, id_usuario, F)
        p == [Pedido("criar", id_usuario, NULL, evento) EXCEPT
                 !.levantou = c.levantou, !.rollback = c.rollback, !.mongo_id = c.mongo_id]
    IN IF ~c.ok
       THEN [bancos |-> c.bancos, resp |-> [p EXCEPT !.detalhe = c.erro]]
       ELSE IF "redis_delete_lista" \in F
       THEN [bancos |-> c.bancos,
             resp |-> [p EXCEPT !.id_evento = c.valor, !.detalhe = "redis_delete_lista",
                                !.levantou = {"redis_delete_lista"}]]
       ELSE
        LET db2 == [c.bancos EXCEPT !.redis = redis_delete(@, cache_key_lista(id_usuario))]
            evento_criado == get_single_event_by_id(db2, c.valor, id_usuario)
            q == [p EXCEPT !.id_evento = c.valor, !.redis_ok = TRUE]
        IN IF evento_criado = None
           THEN [bancos |-> db2,
                 resp |-> [q EXCEPT !.detalhe = "Erro ao buscar evento recem-criado."]]
           ELSE [bancos |-> db2,
                 resp |-> [q EXCEPT !.status = 201, !.corpo = EventoResposta(evento_criado)]]

\* GET /agenda/ that keeps no empty agenda in the cache.
api_obter_agenda_sem_vazia(db, id_usuario, F) ==
    LET cache_key == cache_key_lista(id_usuario)
        p == Pedido("agenda", id_usuario, NULL, None)
        agenda == obter_agenda_do_banco(db, id_usuario)
    IN IF "redis_get" \notin F /\ cache_key \in DOMAIN db.redis
       THEN [bancos |-> db,
             resp |-> [p EXCEPT !.status = 200, !.redis_ok = TRUE, !.cache_hit = TRUE,
                          !.corpo = ListaEventoResposta(json_loads(db.redis[cache_key]))]]
       ELSE [bancos |-> IF "redis_set" \in F \/ agenda = <<>> THEN db
                        ELSE [db EXCEPT !.redis =
                                 redis_set(@, cache_key, json_dumps_lista(agenda))],
             resp |-> [p EXCEPT !.status = 200,
                          !.levantou = F \cap {"redis_get", "redis_set"},
                          !.redis_ok = ~({"redis_get", "redis_set"} \subseteq F),
                          !.corpo = ListaEventoResposta(agenda)]]

\* GET /agenda/.
api_obter_agenda(db, id_usuario, F) ==
    LET cache_key == cache_key_lista(id_usuario)
        p == Pedido("agenda", id_usuario, NULL, None)
        agenda == obter_agenda_do_banco(db, id_usuario)
    IN IF "redis_get" \notin F /\ cache_key \in DOMAIN db.redis
       THEN [bancos |-> db,
             resp |-> [p EXCEPT !.status = 200, !.redis_ok = TRUE, !.cache_hit = TRUE,
                          !.corpo = ListaEventoResposta(json_loads(db.redis[cache_key]))]]
       ELSE [bancos |-> IF "redis_set" \in F THEN db
                        ELSE [db EXCEPT !.redis =
                                 redis_set(@, cache_key, json_dumps_lista(agenda))],
             resp |-> [p EXCEPT !.status = 200,
                          !.levantou = F \cap {"redis_get", "redis_set"},
                          !.redis_ok = ~({"redis_get", "redis_set"} \subseteq F),
                          !.corpo = ListaEventoResposta(agenda)]]

\* GET /eventos/{id_evento}.
api_get_single_event(db, id_evento, id_usuario, F) ==
    LET cache_key == cache_key_item(id_evento)
        p == Pedido("evento", id_usuario, id_evento, None)
        evento == get_single_event_by_id(db, id_evento, id_usuario)
    IN IF "redis_get" \notin F /\ cache_key \in DOMAIN db.redis
       THEN [bancos |-> db,
             resp |-> [p EXCEPT !.status = 200, !.redis_ok = TRUE, !.cache_hit = TRUE,
                          !.corpo = EventoResposta(json_loads(db.redis[cache_key]))]]
       ELSE IF evento = None
       THEN [bancos |-> db,
             resp |-> [p EXCEPT !.status = 404,
                          !.detalhe = "Evento nao encontrado ou nao pertence ao usuario.",
                          !.levantou = F \cap {"redis_get"},
                          !.redis_ok = "redis_get" \notin F]]
       ELSE [bancos |-> IF "redis_set" \in F THEN db
                        ELSE [db EXCEPT !.redis = redis_set(@, cache_key, json_dumps(evento))],
             resp |-> [p EXCEPT !.status = 200,
                          !.levantou = F \cap {"redis_get", "redis_set"},
                          !.redis_ok = ~({"redis_get", "redis_set"} \subseteq F),
                          !.corpo = EventoResposta(evento)]]

\* The two cache deletes that follow an update or a delete, under one try:
\* the first that raises ends them.
limpar_cache(r, id_usuario, id_evento, F) ==
    IF "redis_delete_lista" \in F THEN r
    ELSE IF "redis_delete_item" \in F THEN redis_delete(r, cache_key_lista(id_usuario))
    ELSE redis_delete(redis_delete(r, cache_key_lista(id_usuario)), cache_key_item(id_evento))

\* The calls of the two cache deletes that raised.
limpar_cache_levantou(F) ==
    IF "redis_delete_lista" \in F THEN {"redis_delete_lista"}
    ELSE F \cap {"redis_delete_item"}

\* PUT /eventos/{id_evento}.
api_atualizar_evento(db, id_evento, evento_data, id_usuario, F) ==
    LET a == atualizar_evento_completo(db, id_evento, id_usuario, evento_data, F)
        p == [Pedido("atualizar", id_usuario, id_evento, evento_data) EXCEPT
                 !.levantou = a.levantou, !.rollback = a.rollback]
    IN IF ~a.ok
       THEN [bancos |-> a.bancos, resp |-> [p EXCEPT !.detalhe = a.erro]]
       ELSE IF ~a.valor
       THEN [bancos |-> a.bancos,
             resp |-> [p EXCEPT !.status = 404,
                          !.detalhe = "Evento nao encontrado ou nao pertence ao usuario."]]
       ELSE
        LET db2 == [a.bancos EXCEPT !.redis = limpar_cache(@, id_usuario, id_evento, F)]
            evento_atualizado_real == get_single_event_by_id(db2, id_evento, id_usuario)
            q == [p EXCEPT !.levantou = limpar_cache_levantou(F),
                           !.redis_ok = "redis_delete_lista" \notin F]
        IN IF evento_atualizado_real = None
           THEN [bancos |-> db2,
                 resp |-> [q EXCEPT !.status = 404,
                              !.detalhe = "Evento nao encontrado apos a atualizacao."]]
           ELSE [bancos |-> db2,
                 resp |-> [q EXCEPT !.status = 200,
                              !.corpo = EventoResposta(evento_atualizado_real)]]

\* DELETE /eventos/{id_evento}.
api_deletar_evento(db, id_evento, id_usuario, F) ==
    LET d == deletar_evento_completo(db, id_evento, id_usuario, F)
        p == [Pedido("deletar", id_usuario, id_evento, None) EXCEPT
                 !.levantou = d.levantou, !.rollback = d.rollback]
    IN IF ~d.ok
       THEN [bancos |-> d.bancos, resp |-> [p EXCEPT !.detalhe = d.erro]]
       ELSE IF ~d.valor
       THEN [bancos |-> d.bancos,
             resp |-> [p EXCEPT !.status = 404,
                          !.detalhe = "Evento nao encontrado ou nao pertence ao usuario."]]
       ELSE [bancos |-> [d.bancos EXCEPT !.redis = limpar_cache(@, id_usuario, id_evento, F)],
             resp |-> [p EXCEPT !.status = 204,
                          !.levantou = limpar_cache_levantou(F),
                          !.redis_ok = "redis_delete_lista" \notin F]]

\* POST /login that tells an unknown email from a wrong password.
api_login_enumera(db, username, password) ==
    LET user == authenticate_user(db, username, password)
        p == Pedido("login", NULL, NULL, [username |-> username, password |-> password])
    IN IF get_user_by_email(db, username) = None
       THEN [bancos |-> db,
             resp |-> [p EXCEPT !.status = 404, !.detalhe = "Usuario nao encontrado."]]
       ELSE IF user = None
       THEN [bancos |-> db,
             resp |-> [p EXCEPT !.status = 401, !.detalhe = "Email ou senha incorretos."]]
       ELSE [bancos |-> db,
             resp |-> [p EXCEPT !.status = 200,
                          !.corpo = [access_token |->
                                        create_access_token([id_usuario |-> user.id_usuario]),
                                     token_type |-> "bearer"]]]

\* POST /login.
api_login_for_access_token(db, username, password) ==
    LET user == authenticate_user(db, username, password)
        p == Pedido("login", NULL, NULL, [username |-> username, password |-> password])
    IN IF user = None
       THEN [bancos |-> db,
             resp |-> [p EXCEPT !.status = 401, !.detalhe = "Email ou senha incorretos."]]
       ELSE [bancos |-> db,
             resp |-> [p EXCEPT !.status = 200,
                          !.corpo = [access_token |->
                                        create_access_token([id_usuario |-> user.id_usuario]),
                                     token_type |-> "bearer"]]]

\* security.get_current_user_id: the bearer of a token of a user of the table.
get_current_user_id == {u.id_usuario : u \in usuarios}

\* ---------------------------------------------------- the account handlers

\* A request between two of its steps: no answer yet.
Andamento(p) == [p EXCEPT !.status = 0]

CredenciaisInvalidas(p) ==
    [p EXCEPT !.status = 401, !.detalhe = "Nao foi possivel validar as credenciais"]

AcessoNegado(p) ==
    [p EXCEPT !.status = 403,
              !.detalhe = "Acesso negado: Requer privilegios de administrador."]

\* POST /register, up to the look-up of the email, which lets every email pass.
api_register_user_sem_checar(db, user) ==
    [bancos |-> db, resp |-> Andamento(Pedido("register", NULL, NULL, user)),
     segue |-> TRUE]

\* POST /register, up to the look-up of the email: the 400, or the request goes
\* on (segue).
api_register_user_checa(db, user) ==
    LET db_user == get_user_by_email(db, user.email)
        p == Pedido("register", NULL, NULL, user)
    IN IF db_user # None
       THEN [bancos |-> db,
             resp |-> [p EXCEPT !.status = 400, !.detalhe = "Email ja registrado."],
             segue |-> FALSE]
       ELSE [bancos |-> db, resp |-> Andamento(p), segue |-> TRUE]

\* POST /register, from the try on.
api_register_user_cria(db, user, F) ==
    LET c == create_user(db, user, F)
        p == [Pedido("register", NULL, NULL, user) EXCEPT !.levantou = c.levantou]
    IN IF ~c.ok
       THEN [bancos |-> c.bancos, resp |-> [p EXCEPT !.detalhe = c.erro]]
       ELSE [bancos |-> c.bancos,
             resp |-> [p EXCEPT !.status = 201, !.id_usuario = c.valor,
                          !.corpo = [message |-> <<"Usuario ", user.email,
                                                   " registrado com sucesso.">>]]]

\* POST /forgot-password.
api_forgot_password(db, request) ==
    LET user == get_user_by_email(db, request.email)
        p == [Pedido("forgot", NULL, NULL, request) EXCEPT !.status = 200]
        message == "Se um usuario com este e-mail existir, um token de recuperacao foi gerado."
    IN IF user # None
       THEN [bancos |-> db,
             resp |-> [p EXCEPT !.corpo =
                          [message |-> message,
                           reset_token_for_testing |->
                               create_password_reset_token(user.id_usuario)]]]
       ELSE [bancos |-> db, resp |-> [p EXCEPT !.corpo = [message |-> message]]]

\* PUT /users/me/password, the dependency get_current_user_id.
api_update_my_password_autentica(db, token, data) ==
    LET user == get_current_active_user(db, token)
        p == Pedido("senha", token.jwt.id_usuario, NULL, data)
    IN IF user = None
       THEN [bancos |-> db, resp |-> CredenciaisInvalidas(p), segue |-> FALSE]
       ELSE [bancos |-> db, resp |-> Andamento(p), segue |-> TRUE]

\* PUT /users/me/password, the function's body.  An exception of crud leaves
\* the handler as it is: the 500 of the framework.
api_update_my_password(db, id_usuario, data, F) ==
    LET a == update_user_password(db, id_usuario, data, F)
        p == Pedido("senha", id_usuario, NULL, data)
    IN IF data.old_password = data.new_password
       THEN [bancos |-> db,
             resp |-> [p EXCEPT !.status = 400,
                          !.detalhe = "A nova senha nao pode ser igual a antiga."]]
       ELSE IF ~a.ok
       THEN [bancos |-> a.bancos,
             resp |-> [p EXCEPT !.detalhe = "Internal Server Error",
                          !.levantou = a.levantou]]
       ELSE IF ~a.valor
       THEN [bancos |-> a.bancos,
             resp |-> [p EXCEPT !.status = 400, !.detalhe = "Senha antiga incorreta."]]
       ELSE [bancos |-> a.bancos, resp |-> [p EXCEPT !.status = 204]]

\* DELETE /admin/users/{user_id} that lets an administrator name themselves.
api_admin_delete_user_sem_guarda(db, user_id, token, F) ==
    LET admin_user == get_current_active_user(db, token)
        d == delete_user_by_id(db, user_id, F)
        p == Pedido("deletar_usuario", token.jwt.id_usuario, NULL, [user_id |-> user_id])
    IN IF admin_user = None
       THEN [bancos |-> db, resp |-> CredenciaisInvalidas(p)]
       ELSE IF admin_user.id_grupo # 1
       THEN [bancos |-> db,
             resp |-> [p EXCEPT !.status = 403,
                          !.detalhe = "Acesso negado: Requer privilegios de administrador."]]
       ELSE IF ~d.ok
       THEN [bancos |-> d.bancos,
             resp |-> [p EXCEPT !.detalhe = "Internal Server Error",
                          !.levantou = d.levantou]]
       ELSE IF ~d.valor
       THEN [bancos |-> d.bancos,
             resp |-> [p EXCEPT !.status = 404,
                          !.detalhe = "Usuario nao encontrado para delecao."]]
       ELSE [bancos |-> d.bancos, resp |-> [p EXCEPT !.status = 204]]

\* DELETE /admin/users/{user_id}, with its dependency get_admin_user.
api_admin_delete_user(db, user_id, token, F) ==
    LET admin_user == get_current_active_user(db, token)
        d == delete_user_by_id(db, user_id, F)
        p == Pedido("deletar_usuario", token.jwt.id_usuario, NULL, [user_id |-> user_id])
    IN IF admin_user = None
       THEN [bancos |-> db, resp |-> CredenciaisInvalidas(p)]
       ELSE IF get_admin_user(admin_user) = None
       THEN [bancos |-> db, resp |-> AcessoNegado(p)]
       ELSE IF admin_user.id_usuario = user_id
       THEN [bancos |-> db,
             resp |-> [p EXCEPT !.status = 400,
                          !.detalhe = "Administrador nao pode deletar a si mesmo."]]
       ELSE IF ~d.ok
       THEN [bancos |-> d.bancos,
             resp |-> [p EXCEPT !.detalhe = "Internal Server Error",
                          !.levantou = d.levantou]]
       ELSE IF ~d.valor
       THEN [bancos |-> d.bancos,
             resp |-> [p EXCEPT !.status = 404,
                          !.detalhe = "Usuario nao encontrado para delecao."]]
       ELSE [bancos |-> d.bancos, resp |-> [p EXCEPT !.status = 204]]

\* POST /reset-password.
api_reset_password(db, request, F) ==
    LET id_usuario == decode_password_reset_token(request.token)
        a == update_password_by_id(db, id_usuario, request.new_password, F)
        p == Pedido("reset", id_usuario, NULL, request)
    IN IF id_usuario = NULL
       THEN [bancos |-> db,
             resp |-> [p EXCEPT !.status = 401, !.detalhe = "Tipo de token invalido."]]
       ELSE IF ~a.ok
       THEN [bancos |-> a.bancos,
             resp |-> [p EXCEPT !.detalhe = "Internal Server Error",
                          !.levantou = a.levantou]]
       ELSE IF ~a.valor
       THEN [bancos |-> a.bancos,
             resp |-> [p EXCEPT !.status = 404, !.detalhe = "Usuario nao encontrado."]]
       ELSE [bancos |-> a.bancos, resp |-> [p EXCEPT !.status = 204]]

\* response_model=schemas.UserResponse.
UserResponse(u) ==
    [id_usuario |-> u.id_usuario, email |-> u.email, nome_completo |-> u.nome_completo,
     id_grupo |-> u.id_grupo]

\* GET /users/me.
api_get_my_profile(db, token) ==
    LET user == get_current_active_user(db, token)
        p == Pedido("perfil", token.jwt.id_usuario, NULL, None)
    IN IF user = None
       THEN [bancos |-> db, resp |-> CredenciaisInvalidas(p)]
       ELSE [bancos |-> db, resp |-> [p EXCEPT !.status = 200, !.corpo = UserResponse(user)]]

\* PUT /users/me/profile, with its dependency get_current_user_id.
api_update_my_profile(db, token, data, F) ==
    LET user == get_current_active_user(db, token)
        a == update_user_profile(db, token.jwt.id_usuario, data, F)
        p == Pedido("nome", token.jwt.id_usuario, NULL, data)
    IN IF user = None
       THEN [bancos |-> db, resp |-> CredenciaisInvalidas(p)]
       ELSE IF ~a.ok
       THEN [bancos |-> a.bancos,
             resp |-> [p EXCEPT !.detalhe = "Internal Server Error",
                          !.levantou = a.levantou]]
       ELSE IF a.valor = None
       THEN [bancos |-> a.bancos,
             resp |-> [p EXCEPT !.status = 404, !.detalhe = "Usuario nao encontrado."]]
       ELSE [bancos |-> a.bancos,
             resp |-> [p EXCEPT !.status = 200, !.corpo = UserResponse(a.valor)]]

\* A handler of events behind its dependency get_current_user_id: the 401
\* before the body runs, else the body's answer r for the token's user.
com_token(db, token, p, r) ==
    IF get_current_active_user(db, token) = None
    THEN [bancos |-> db, resp |-> CredenciaisInvalidas(p)]
    ELSE r

\* response_model=List[schemas.UserSearchResponse].
UserSearchResponse(u) ==
    [id_usuario |-> u.id_usuario, email |-> u.email, nome_completo |-> u.nome_completo]

\* GET /admin/users/search, with its dependency get_admin_user.
api_admin_search_users(db, q, token) ==
    LET admin_user == get_current_active_user(db, token)
        p == Pedido("buscar_usuarios", token.jwt.id_usuario, NULL, [q |-> q])
    IN IF admin_user = None
       THEN [bancos |-> db, resp |-> CredenciaisInvalidas(p)]
       ELSE IF get_admin_user(admin_user) = None
       THEN [bancos |-> db, resp |-> AcessoNegado(p)]
       ELSE [bancos |-> db,
             resp |-> [p EXCEPT !.status = 200,
                          !.corpo = {UserSearchResponse(u) : u \in search_users(db, q)}]]

\* ------------------------------------------------------------ the machine

\* The calls that raise in one request (F), per handler.  A call after the
\* first that raises is reached only where the code goes on: the compensating
\* delete_one after a failed relational write, redis.set after a failed
\* redis.get.
FalhasCriar ==
    {{}, {"insert_one"}, {"redis_delete_lista"}}
        \cup {{c} : c \in {"sp_call", "sp_sem_id", "commit"}}
        \cup {{c, "delete_one"} : c \in {"sp_call", "sp_sem_id", "commit"}}
FalhasLer == SUBSET {"redis_get", "redis_set"}
FalhasAtualizar ==
    {{}} \cup {{c} : c \in {"sql_update", "replace_one", "commit",
                            "redis_delete_lista", "redis_delete_item"}}
FalhasDeletar ==
    {{}} \cup {{c} : c \in {"sql_delete", "delete_one", "commit",
                            "redis_delete_lista", "redis_delete_item"}}

Init ==
    /\ usuarios = {[id_usuario |-> "ana", id_grupo |-> 2, email |-> "ana@x.io",
                    senha_hash |-> get_password_hash("senha-ana"), nome_completo |-> "Ana"],
                   [id_usuario |-> "bia", id_grupo |-> 2, email |-> "bia@x.io",
                    senha_hash |-> get_password_hash("senha-bia"), nome_completo |-> "Bia"]}
    /\ eventos = <<>>
    /\ mongo = <<>>
    /\ redis = <<>>
    /\ prox_evento = 1
    /\ prox_oid = 1
    /\ prox_usuario = 1
    /\ ctx = <<>>
    /\ deletados = {}
    /\ resp = Pedido("inicio", NULL, NULL, None)

\* The stores and the answer a handler leaves.
Segue(r) ==
    /\ usuarios' = r.bancos.usuarios
    /\ eventos' = r.bancos.eventos
    /\ mongo' = r.bancos.mongo
    /\ redis' = r.bancos.redis
    /\ prox_evento' = r.bancos.prox_evento
    /\ prox_oid' = r.bancos.prox_oid
    /\ prox_usuario' = r.bancos.prox_usuario
    /\ resp' = r.resp

CriarEvento ==
    /\ prox_oid <= MaxEventos
    /\ \E id_usuario \in get_current_user_id, evento \in EventoCriacao, F \in FalhasCriar :
          Segue(api_criar_evento(Bancos, evento, id_usuario, F))
    /\ UNCHANGED <<ctx, deletados>>

ObterAgenda ==
    /\ \E id_usuario \in get_current_user_id, F \in FalhasLer :
          Segue(api_obter_agenda(Bancos, id_usuario, F))
    /\ UNCHANGED <<ctx, deletados>>

GetSingleEvent ==
    /\ \E id_usuario \in get_current_user_id, id_evento \in IdsEvento, F \in FalhasLer :
          Segue(api_get_single_event(Bancos, id_evento, id_usuario, F))
    /\ UNCHANGED <<ctx, deletados>>

AtualizarEvento ==
    /\ \E id_usuario \in get_current_user_id, id_evento \in IdsEvento,
          evento_data \in EventoCriacao, F \in FalhasAtualizar :
          Segue(api_atualizar_evento(Bancos, id_evento, evento_data, id_usuario, F))
    /\ UNCHANGED <<ctx, deletados>>

DeletarEvento ==
    \E id_usuario \in get_current_user_id, id_evento \in IdsEvento, F \in FalhasDeletar :
        LET r == api_deletar_evento(Bancos, id_evento, id_usuario, F)
        IN /\ Segue(r)
           /\ deletados' = IF r.resp.status = 204 THEN deletados \cup {id_evento}
                           ELSE deletados
           /\ UNCHANGED ctx

Login ==
    /\ \E username \in Emails, password \in Senhas :
          Segue(api_login_for_access_token(Bancos, username, password))
    /\ UNCHANGED <<ctx, deletados>>

\* An entry of the cache reaches its expiry (ex=3600).
Expirar ==
    /\ \E k \in DOMAIN redis : redis' = redis_delete(redis, k)
    /\ resp' = Pedido("expirar", NULL, NULL, None)
    /\ UNCHANGED <<usuarios, eventos, mongo, prox_evento, prox_oid, prox_usuario,
                   ctx, deletados>>

Next ==
    \/ CriarEvento
    \/ ObterAgenda
    \/ GetSingleEvent
    \/ AtualizarEvento
    \/ DeletarEvento
    \/ Login
    \/ Expirar

Spec == Init /\ [][Next]_vars

\* --------------------------------------- the machine on a table with a row

\* A row of eventos that was there before the first request, with a document
\* or with mongo_detalhes_id NULL (a row the code reads, updates and deletes
\* without a document).
InitSemeado ==
    /\ usuarios = {[id_usuario |-> "ana", id_grupo |-> 2, email |-> "ana@x.io",
                    senha_hash |-> get_password_hash("senha-ana"), nome_completo |-> "Ana"],
                   [id_usuario |-> "bia", id_grupo |-> 2, email |-> "bia@x.io",
                    senha_hash |-> get_password_hash("senha-bia"), nome_completo |-> "Bia"]}
    /\ \E mongo_id \in {NULL, str_oid(1)} :
          /\ eventos = <<[id_evento |-> "1", id_usuario |-> "ana",
                          id_categoria |-> Lancamento.id_categoria,
                          titulo |-> Lancamento.titulo,
                          data_hora_inicio |-> Lancamento.data_hora_inicio,
                          local_evento |-> Lancamento.local_evento,
                          mongo_detalhes_id |-> mongo_id]>>
          /\ mongo = IF mongo_id = NULL THEN <<>> ELSE (1 :> Lancamento.dados_mongo)
    /\ redis = <<>>
    /\ prox_evento = 2
    /\ prox_oid = 2
    /\ prox_usuario = 1
    /\ ctx = <<>>
    /\ deletados = {}
    /\ resp = Pedido("inicio", NULL, NULL, None)

NextSemeado ==
    \/ ObterAgenda
    \/ GetSingleEvent
    \/ AtualizarEvento
    \/ DeletarEvento
    \/ Expirar

SpecSemeado == InitSemeado /\ [][NextSemeado]_vars

\* ------------------------------------------ the machine of requests in steps

\* One reading request (leitor) and one writing request (escritor) at a time,
\* each on its own session, their calls of the stores and of the cache as
\* steps: a read is redis.get, the query of the stores, redis.set; a write is
\* the function of crud (to its commit), then the deletes of the cache and
\* the answer.  No call raises.
InitPassos ==
    /\ usuarios = {[id_usuario |-> "ana", id_grupo |-> 2, email |-> "ana@x.io",
                    senha_hash |-> get_password_hash("senha-ana"), nome_completo |-> "Ana"],
                   [id_usuario |-> "bia", id_grupo |-> 2, email |-> "bia@x.io",
                    senha_hash |-> get_password_hash("senha-bia"), nome_completo |-> "Bia"]}
    /\ eventos = <<[id_evento |-> "1", id_usuario |-> "ana",
                    id_categoria |-> Lancamento.id_categoria,
                    titulo |-> Lancamento.titulo,
                    data_hora_inicio |-> Lancamento.data_hora_inicio,
                    local_evento |-> Lancamento.local_evento,
                    mongo_detalhes_id |-> str_oid(1)]>>
    /\ mongo = (1 :> Lancamento.dados_mongo)
    /\ redis = <<>>
    /\ prox_evento = 2
    /\ prox_oid = 2
    /\ prox_usuario = 1
    /\ ctx = <<>>
    /\ deletados = {}
    /\ resp = Pedido("inicio", NULL, NULL, None)

\* The key a reading request works on.
cache_key_de(c) ==
    IF c.op = "agenda" THEN cache_key_lista(c.id_usuario) ELSE cache_key_item(c.id_evento)

\* A reading request: redis.get.  A hit is the whole request (the handler's
\* return of the cached text); a miss leaves the request before its query.
LeitorGet ==
    /\ "leitor" \notin DOMAIN ctx
    /\ \E op \in {"agenda", "evento"}, id_usuario \in get_current_user_id,
          id_evento \in IdsEvento :
          LET c == [op |-> op, id_usuario |-> id_usuario,
                    id_evento |-> IF op = "agenda" THEN NULL ELSE id_evento,
                    entrada |-> None, pc |-> "busca", valor |-> None]
          IN IF cache_key_de(c) \in DOMAIN redis
             THEN /\ resp' = IF op = "agenda"
                             THEN api_obter_agenda(Bancos, id_usuario, {}).resp
                             ELSE api_get_single_event(Bancos, id_evento, id_usuario, {}).resp
                  /\ ctx' = ctx
             ELSE /\ resp' = Andamento(Pedido(op, id_usuario, c.id_evento, None))
                  /\ ctx' = ("leitor" :> c) @@ ctx
    /\ UNCHANGED <<usuarios, eventos, mongo, redis, prox_evento, prox_oid, prox_usuario,
                   deletados>>

\* A reading request: the query of the two stores.  An event that is not
\* found ends the request with the 404.
LeitorBusca ==
    /\ "leitor" \in DOMAIN ctx
    /\ ctx["leitor"].pc = "busca"
    /\ LET c == ctx["leitor"]
           valor == IF c.op = "agenda"
                    THEN obter_agenda_do_banco(Bancos, c.id_usuario)
                    ELSE get_single_event_by_id(Bancos, c.id_evento, c.id_usuario)
       IN IF c.op = "evento" /\ valor = None
          THEN /\ resp' = [Pedido(c.op, c.id_usuario, c.id_evento, None) EXCEPT
                              !.status = 404, !.redis_ok = TRUE,
                              !.detalhe = "Evento nao encontrado ou nao pertence ao usuario."]
               /\ ctx' = Sem(ctx, "leitor")
          ELSE /\ resp' = Andamento(Pedido(c.op, c.id_usuario, c.id_evento, None))
               /\ ctx' = [ctx EXCEPT !["leitor"] = [c EXCEPT !.pc = "set", !.valor = valor]]
    /\ UNCHANGED <<usuarios, eventos, mongo, redis, prox_evento, prox_oid, prox_usuario,
                   deletados>>

\* A reading request: redis.set of what the query found, and the answer.
LeitorSet ==
    /\ "leitor" \in DOMAIN ctx
    /\ ctx["leitor"].pc = "set"
    /\ LET c == ctx["leitor"]
       IN /\ redis' = redis_set(redis, cache_key_de(c),
                                IF c.op = "agenda" THEN json_dumps_lista(c.valor)
                                ELSE json_dumps(c.valor))
          /\ resp' = [Pedido(c.op, c.id_usuario, c.id_evento, None) EXCEPT
                         !.status = 200, !.redis_ok = TRUE,
                         !.corpo = IF c.op = "agenda" THEN ListaEventoResposta(c.valor)
                                   ELSE EventoResposta(c.valor)]
    /\ ctx' = Sem(ctx, "leitor")
    /\ UNCHANGED <<usuarios, eventos, mongo, prox_evento, prox_oid, prox_usuario, deletados>>

\* A writing request: the function of crud, to its commit.  An event that is
\* not found ends the request with the 404.
EscritorGrava ==
    /\ "escritor" \notin DOMAIN ctx
    /\ \E op \in {"atualizar", "deletar"}, id_usuario \in get_current_user_id,
          id_evento \in IdsEvento, evento_data \in EventoCriacao :
          LET entrada == IF op = "atualizar" THEN evento_data ELSE None
              a == IF op = "atualizar"
                   THEN atualizar_evento_completo(Bancos, id_evento, id_usuario, evento_data, {})
                   ELSE deletar_evento_completo(Bancos, id_evento, id_usuario, {})
          IN /\ eventos' = a.bancos.eventos
             /\ mongo' = a.bancos.mongo
             /\ IF a.valor
                THEN /\ resp' = Andamento(Pedido(op, id_usuario, id_evento, entrada))
                     /\ ctx' = ("escritor" :>
                                   [op |-> op, id_usuario |-> id_usuario,
                                    id_evento |-> id_evento, entrada |-> entrada,
                                    pc |-> "invalida", valor |-> None]) @@ ctx
                ELSE /\ resp' = [Pedido(op, id_usuario, id_evento, entrada) EXCEPT
                                    !.status = 404,
                                    !.detalhe =
                                       "Evento nao encontrado ou nao pertence ao usuario."]
                     /\ ctx' = ctx
    /\ UNCHANGED <<usuarios, redis, prox_evento, prox_oid, prox_usuario, deletados>>

\* A writing request: the two deletes of the cache, and the answer (of an
\* update, the event read again).
EscritorInvalida ==
    /\ "escritor" \in DOMAIN ctx
    /\ LET c == ctx["escritor"]
           evento_atualizado_real == get_single_event_by_id(Bancos, c.id_evento, c.id_usuario)
           p == [Pedido(c.op, c.id_usuario, c.id_evento, c.entrada) EXCEPT !.redis_ok = TRUE]
       IN /\ redis' = limpar_cache(redis, c.id_usuario, c.id_evento, {})
          /\ resp' = IF c.op = "deletar" THEN [p EXCEPT !.status = 204]
                      ELSE IF evento_atualizado_real = None
                      THEN [p EXCEPT !.status = 404,
                               !.detalhe = "Evento nao encontrado apos a atualizacao."]
                      ELSE [p EXCEPT !.status = 200,
                               !.corpo = EventoResposta(evento_atualizado_real)]
    /\ ctx' = Sem(ctx, "escritor")
    /\ UNCHANGED <<usuarios, eventos, mongo, prox_evento, prox_oid, prox_usuario, deletados>>

NextPassos ==
    \/ LeitorGet
    \/ LeitorBusca
    \/ LeitorSet
    \/ EscritorGrava
    \/ EscritorInvalida

SpecPassos == InitPassos /\ [][NextPassos]_vars

\* ------------------------------------------------- the machine of accounts

\* The rows of usuarios before the first request: an administrator (id_grupo
\* 1) and a standard user.
UsuariosSemeados ==
    {[id_usuario |-> "root", id_grupo |-> 1, email |-> "root@x.io",
      senha_hash |-> get_password_hash("senha-root"), nome_completo |-> "Root"],
     [id_usuario |-> "ana", id_grupo |-> 2, email |-> "ana@x.io",
      senha_hash |-> get_password_hash("senha-ana"), nome_completo |-> "Ana"]}

\* The access tokens /login has handed out: one per user there is or was.
TokensEmitidos ==
    {create_access_token([id_usuario |-> i]) :
        i \in {u.id_usuario : u \in UsuariosSemeados}
                 \cup {ToString(n) : n \in 1..(prox_usuario - 1)}}

FalhasRegistrar == {{}, {"sql_insert"}, {"commit"}}
FalhasConta == {{}, {"commit"}}

InitContas ==
    /\ usuarios = UsuariosSemeados
    /\ eventos = <<>>
    /\ mongo = <<>>
    /\ redis = <<>>
    /\ prox_evento = 1
    /\ prox_oid = 1
    /\ prox_usuario = 1
    /\ ctx = <<>>
    /\ deletados = {}
    /\ resp = Pedido("inicio", NULL, NULL, None)

\* The stores and the answer a step of an account handler leaves.
SegueConta(r) ==
    /\ usuarios' = r.bancos.usuarios
    /\ prox_usuario' = r.bancos.prox_usuario
    /\ resp' = r.resp
    /\ UNCHANGED <<eventos, mongo, redis, prox_evento, prox_oid, deletados>>

\* The execution context a new request gets: the first that is free.
Livre ==
    IF "p1" \notin DOMAIN ctx THEN {"p1"}
    ELSE IF "p2" \notin DOMAIN ctx THEN {"p2"}
    ELSE {}

\* The requests in flight that will insert a user.
RegistrosEmCurso == {p \in DOMAIN ctx : ctx[p].op = "register"}

RegisterChecar ==
    /\ prox_usuario + Cardinality(RegistrosEmCurso) <= MaxUsuarios
    /\ \E p \in Livre, user \in UserCreate :
          LET r == api_register_user_checa(Bancos, user)
          IN /\ SegueConta(r)
             /\ ctx' = IF r.segue
                       THEN (p :> [op |-> "register", id_usuario |-> NULL, entrada |-> user])
                                @@ ctx
                       ELSE ctx

RegisterCriar ==
    \E p \in RegistrosEmCurso, F \in FalhasRegistrar :
        /\ SegueConta(api_register_user_cria(Bancos, ctx[p].entrada, F))
        /\ ctx' = Sem(ctx, p)

ForgotPassword ==
    /\ \E request \in ForgotPasswordRequest : SegueConta(api_forgot_password(Bancos, request))
    /\ UNCHANGED ctx

UpdateMyPasswordAutenticar ==
    \E p \in Livre, token \in TokensEmitidos, data \in UserUpdatePassword :
        LET r == api_update_my_password_autentica(Bancos, token, data)
        IN /\ SegueConta(r)
           /\ ctx' = IF r.segue
                     THEN (p :> [op |-> "senha", id_usuario |-> token.jwt.id_usuario,
                                 entrada |-> data]) @@ ctx
                     ELSE ctx

UpdateMyPassword ==
    \E p \in DOMAIN ctx, F \in FalhasConta :
        /\ ctx[p].op = "senha"
        /\ SegueConta(api_update_my_password(Bancos, ctx[p].id_usuario, ctx[p].entrada, F))
        /\ ctx' = Sem(ctx, p)

AdminDeleteUser ==
    /\ \E token \in TokensEmitidos, F \in FalhasConta,
          user_id \in {t.jwt.id_usuario : t \in TokensEmitidos} :
          SegueConta(api_admin_delete_user(Bancos, user_id, token, F))
    /\ UNCHANGED ctx

\* The search terms of GET /admin/users/search (q, min_length 1).
TermosBusca == {"ana", "x.io"}

AdminSearchUsers ==
    /\ \E token \in TokensEmitidos, q \in TermosBusca :
          SegueConta(api_admin_search_users(Bancos, q, token))
    /\ UNCHANGED ctx

NextContas ==
    \/ RegisterChecar
    \/ RegisterCriar
    \/ ForgotPassword
    \/ UpdateMyPasswordAutenticar
    \/ UpdateMyPassword
    \/ AdminDeleteUser
    \/ AdminSearchUsers

SpecContas == InitContas /\ [][NextContas]_vars

\* ------------------------------------ the machine of reads on a given table

\* The rows eventos can hold when a read comes: row i of either user, with the
\* columns of one of the payloads, and either no document reference or the
\* reference of document i.
LinhasSemeadas ==
    {"ana", "bia"} \X EventoCriacao \X BOOLEAN

TabelasSemeadas ==
    UNION {[1..n -> LinhasSemeadas] : n \in 0..(MaxEventos + 1)}

\* The table is any of TabelasSemeadas; of the documents the rows refer to,
\* any may be missing from the collection (the row of a DeleteEvent whose
\* commit raised after delete_one, see C19).
InitAgenda ==
    /\ usuarios = {[id_usuario |-> "ana", id_grupo |-> 2, email |-> "ana@x.io",
                    senha_hash |-> get_password_hash("senha-ana"), nome_completo |-> "Ana"],
                   [id_usuario |-> "bia", id_grupo |-> 2, email |-> "bia@x.io",
                    senha_hash |-> get_password_hash("senha-bia"), nome_completo |-> "Bia"]}
    /\ \E t \in TabelasSemeadas :
          /\ eventos = [i \in DOMAIN t |->
                           [id_evento |-> ToString(i), id_usuario |-> t[i][1],
                            id_categoria |-> t[i][2].id_categoria,
                            titulo |-> t[i][2].titulo,
                            data_hora_inicio |-> t[i][2].data_hora_inicio,
                            local_evento |-> t[i][2].local_evento,
                            mongo_detalhes_id |-> IF t[i][3] THEN str_oid(i) ELSE NULL]]
          /\ \E presentes \in SUBSET {i \in DOMAIN t : t[i][3]} :
                mongo = [i \in presentes |-> t[i][2].dados_mongo]
          /\ prox_evento = Len(t) + 1
          /\ prox_oid = Len(t) + 1
    /\ redis = <<>>
    /\ prox_usuario = 1
    /\ ctx = <<>>
    /\ deletados = {}
    /\ resp = Pedido("inicio", NULL, NULL, None)

NextAgenda ==
    \/ ObterAgenda
    \/ Expirar

SpecAgenda == InitAgenda /\ [][NextAgenda]_vars

\* ------------------------------------- the machine of two writing requests

\* Two requests (p1, p2), each an UpdateEvent or a DeleteEvent on its own
\* session, their calls as steps: query_find, the UPDATE or DELETE of the
\* session's transaction, the write of the document, the commit, then the
\* deletes of the cache and the answer.  eventos is the committed table; a
\* session's UPDATE or DELETE stays pending (pendente) until its commit, and
\* a call that raises ends the request through rollback().  A request that
\* has answered stays in ctx with pc "fim" and its status.

\* A transaction that has written a row holds it until it commits or rolls
\* back: the UPDATE or DELETE of another session on that row waits.  This
\* UPDATE that waits for no one.
bloqueio_livre_sempre(c, p, id_evento) == TRUE

\* The row id_evento is not held by a session other than p's.
bloqueio_livre(c, p, id_evento) ==
    \A q \in (DOMAIN c) \ {p} : c[q].id_evento # id_evento \/ c[q].pendente = ""

\* The try block that commits before it writes the document.
proximo_passo_commit_antes(pc) ==
    CASE pc = "sql" -> "commit"
      [] pc = "commit" -> "mongo"
      [] pc = "mongo" -> "cache"
      [] OTHER -> "fim"

\* The order of the calls after query_find: the UPDATE or DELETE, the write
\* of the document, the commit, the deletes of the cache, the answer.
proximo_passo(pc) ==
    CASE pc = "sql" -> "mongo"
      [] pc = "mongo" -> "commit"
      [] pc = "commit" -> "cache"
      [] OTHER -> "fim"

\* A request of the machine, before its first call.
Escrita(op, id_usuario, id_evento, entrada) ==
    [op |-> op, id_usuario |-> id_usuario, id_evento |-> id_evento, entrada |-> entrada,
     pc |-> "sql", mongo_id |-> NULL, pendente |-> "", rowcount |-> 0,
     commitou |-> FALSE, esperou |-> FALSE, status |-> 0]

\* The except block of the function of crud and of the handler: rollback(),
\* and the 500 with the call that raised.
EscritaLevanta(p, chamada) ==
    /\ ctx' = [ctx EXCEPT ![p].pendente = "", ![p].pc = "fim", ![p].status = 500]
    /\ resp' = [Pedido(ctx[p].op, ctx[p].id_usuario, ctx[p].id_evento, ctx[p].entrada)
                   EXCEPT !.detalhe = chamada, !.levantou = {chamada}, !.rollback = TRUE]
    /\ UNCHANGED <<usuarios, eventos, mongo, redis, prox_evento, prox_oid, prox_usuario,
                   deletados>>

\* query_find: the 404 when the user has no such row, else the request goes
\* on with the row's mongo_detalhes_id.
EscritaFind ==
    /\ \E p \in Procs \ DOMAIN ctx, op \in {"atualizar", "deletar"},
          id_usuario \in get_current_user_id, id_evento \in IdsEvento,
          evento_data \in EventoCriacao :
          LET entrada == IF op = "atualizar" THEN evento_data ELSE None
              evento_sql == query_find(Bancos, id_evento, id_usuario)
              c == Escrita(op, id_usuario, id_evento, entrada)
          IN IF evento_sql = <<>>
             THEN /\ resp' = [Pedido(op, id_usuario, id_evento, entrada) EXCEPT
                                 !.status = 404,
                                 !.detalhe =
                                    "Evento nao encontrado ou nao pertence ao usuario."]
                  /\ ctx' = (p :> [c EXCEPT !.pc = "fim", !.status = 404]) @@ ctx
             ELSE /\ resp' = Andamento(Pedido(op, id_usuario, id_evento, entrada))
                  /\ ctx' = (p :> [c EXCEPT
                                      !.mongo_id = Head(evento_sql).mongo_detalhes_id,
                                      !.esperou = ~bloqueio_livre(ctx, p, id_evento)])
                               @@ ctx
    /\ UNCHANGED <<usuarios, eventos, mongo, redis, prox_evento, prox_oid, prox_usuario,
                   deletados>>

\* db_sql.execute of the UPDATE or DELETE: it goes through once the row is
\* free, and holds the rows it matched.
EscritaSql ==
    \E p \in DOMAIN ctx, levanta \in BOOLEAN :
        /\ ctx[p].pc = "sql"
        /\ IF levanta
           THEN EscritaLevanta(p, IF ctx[p].op = "atualizar" THEN "sql_update"
                                  ELSE "sql_delete")
           ELSE /\ bloqueio_livre(ctx, p, ctx[p].id_evento)
                /\ LET rowcount == Cardinality({i \in DOMAIN eventos :
                                       eventos[i].id_evento = ctx[p].id_evento})
                   IN ctx' = [ctx EXCEPT ![p].pc = proximo_passo("sql"),
                                         ![p].rowcount = rowcount,
                                         ![p].pendente = IF rowcount > 0 THEN ctx[p].op
                                                         ELSE ""]
                /\ resp' = Andamento(Pedido(ctx[p].op, ctx[p].id_usuario,
                                            ctx[p].id_evento, ctx[p].entrada))
                /\ UNCHANGED <<usuarios, eventos, mongo, redis, prox_evento, prox_oid,
                               prox_usuario, deletados>>

\* if mongo_id: replace_one or delete_one.
EscritaMongo ==
    \E p \in DOMAIN ctx, levanta \in BOOLEAN :
        /\ ctx[p].pc = "mongo"
        /\ IF levanta /\ ctx[p].mongo_id # NULL
           THEN EscritaLevanta(p, IF ctx[p].op = "atualizar" THEN "replace_one"
                                  ELSE "delete_one")
           ELSE /\ mongo' = IF ctx[p].mongo_id = NULL THEN mongo
                            ELSE IF ctx[p].op = "atualizar"
                            THEN replace_one(mongo, ObjectId(ctx[p].mongo_id),
                                             ctx[p].entrada.dados_mongo)
                            ELSE delete_one(mongo, ObjectId(ctx[p].mongo_id))
                /\ ctx' = [ctx EXCEPT ![p].pc = proximo_passo("mongo")]
                /\ resp' = Andamento(Pedido(ctx[p].op, ctx[p].id_usuario,
                                            ctx[p].id_evento, ctx[p].entrada))
                /\ UNCHANGED <<usuarios, eventos, redis, prox_evento, prox_oid,
                               prox_usuario, deletados>>

\* db_sql.commit(): the pending write reaches the table.
EscritaCommit ==
    \E p \in DOMAIN ctx, levanta \in BOOLEAN :
        /\ ctx[p].pc = "commit"
        /\ IF levanta
           THEN EscritaLevanta(p, "commit")
           ELSE /\ eventos' = IF ctx[p].pendente = "atualizar"
                              THEN query_update_sql(eventos, ctx[p].id_evento,
                                                    ctx[p].entrada)
                              ELSE IF ctx[p].pendente = "deletar"
                              THEN query_delete(eventos, ctx[p].id_evento)
                              ELSE eventos
                /\ ctx' = [ctx EXCEPT ![p].pc = proximo_passo("commit"),
                                      ![p].pendente = "",
                                      ![p].commitou = TRUE]
                /\ resp' = Andamento(Pedido(ctx[p].op, ctx[p].id_usuario,
                                            ctx[p].id_evento, ctx[p].entrada))
                /\ UNCHANGED <<usuarios, mongo, redis, prox_evento, prox_oid,
                               prox_usuario, deletados>>

\* The two deletes of the cache, and the answer (of an update, the event read
\* again).
EscritaResponde ==
    \E p \in DOMAIN ctx :
        /\ ctx[p].pc = "cache"
        /\ LET c == ctx[p]
               evento_atualizado_real ==
                   get_single_event_by_id(Bancos, c.id_evento, c.id_usuario)
               r == [Pedido(c.op, c.id_usuario, c.id_evento, c.entrada) EXCEPT
                        !.redis_ok = TRUE]
               status == IF c.op = "deletar" THEN 204
                         ELSE IF evento_atualizado_real = None THEN 404 ELSE 200
           IN /\ redis' = limpar_cache(redis, c.id_usuario, c.id_evento, {})
              /\ resp' = IF status = 204 THEN [r EXCEPT !.status = 204]
                          ELSE IF status = 404
                          THEN [r EXCEPT !.status = 404,
                                   !.detalhe = "Evento nao encontrado apos a atualizacao."]
                          ELSE [r EXCEPT !.status = 200,
                                   !.corpo = EventoResposta(evento_atualizado_real)]
              /\ ctx' = [ctx EXCEPT ![p].pc = proximo_passo("cache"), ![p].status = status]
              /\ deletados' = IF status = 204 THEN deletados \cup {c.id_evento}
                              ELSE deletados
        /\ UNCHANGED <<usuarios, eventos, mongo, prox_evento, prox_oid, prox_usuario>>

NextEscritas ==
    \/ EscritaFind
    \/ EscritaSql
    \/ EscritaMongo
    \/ EscritaCommit
    \/ EscritaResponde

SpecEscritas == InitPassos /\ [][NextEscritas]_vars

\* --------------------------------------- the machine of requests by token

\* Every endpoint that takes a bearer token, each request whole and with no
\* call raising, asked with the access tokens of the seeded users: the
\* administrator root and the standard user ana, whom root can delete.
UserUpdateProfile == {[nome_completo |-> "Nova"]}

InitTokens ==
    /\ usuarios = UsuariosSemeados
    /\ eventos = <<>>
    /\ mongo = <<>>
    /\ redis = <<>>
    /\ prox_evento = 1
    /\ prox_oid = 1
    /\ prox_usuario = 1
    /\ ctx = <<>>
    /\ deletados = {}
    /\ resp = Pedido("inicio", NULL, NULL, None)

TokenCriarEvento ==
    /\ prox_oid <= MaxEventos
    /\ \E token \in TokensEmitidos, evento \in EventoCriacao :
          LET id_usuario == token.jwt.id_usuario
          IN Segue(com_token(Bancos, token, Pedido("criar", id_usuario, NULL, evento),
                             api_criar_evento(Bancos, evento, id_usuario, {})))
    /\ UNCHANGED <<ctx, deletados>>

TokenObterAgenda ==
    /\ \E token \in TokensEmitidos :
          LET id_usuario == token.jwt.id_usuario
          IN Segue(com_token(Bancos, token, Pedido("agenda", id_usuario, NULL, None),
                             api_obter_agenda(Bancos, id_usuario, {})))
    /\ UNCHANGED <<ctx, deletados>>

TokenGetSingleEvent ==
    /\ \E token \in TokensEmitidos, id_evento \in IdsEvento :
          LET id_usuario == token.jwt.id_usuario
          IN Segue(com_token(Bancos, token, Pedido("evento", id_usuario, id_evento, None),
                             api_get_single_event(Bancos, id_evento, id_usuario, {})))
    /\ UNCHANGED <<ctx, deletados>>

TokenAtualizarEvento ==
    /\ \E token \in TokensEmitidos, id_evento \in IdsEvento, evento_data \in EventoCriacao :
          LET id_usuario == token.jwt.id_usuario
          IN Segue(com_token(Bancos, token,
                             Pedido("atualizar", id_usuario, id_evento, evento_data),
                             api_atualizar_evento(Bancos, id_evento, evento_data,
                                                  id_usuario, {})))
    /\ UNCHANGED <<ctx, deletados>>

TokenDeletarEvento ==
    \E token \in TokensEmitidos, id_evento \in IdsEvento :
        LET id_usuario == token.jwt.id_usuario
            r == com_token(Bancos, token, Pedido("deletar", id_usuario, id_evento, None),
                           api_deletar_evento(Bancos, id_evento, id_usuario, {}))
        IN /\ Segue(r)
           /\ deletados' = IF r.resp.status = 204 THEN deletados \cup {id_evento}
                           ELSE deletados
           /\ UNCHANGED ctx

GetMyProfile ==
    /\ \E token \in TokensEmitidos : Segue(api_get_my_profile(Bancos, token))
    /\ UNCHANGED <<ctx, deletados>>

UpdateMyProfile ==
    /\ \E token \in TokensEmitidos, data \in UserUpdateProfile :
          Segue(api_update_my_profile(Bancos, token, data, {}))
    /\ UNCHANGED <<ctx, deletados>>

\* PUT /users/me/password, the dependency and the body as one step.
TokenUpdateMyPassword ==
    /\ \E token \in TokensEmitidos, data \in UserUpdatePassword :
          LET a == api_update_my_password_autentica(Bancos, token, data)
          IN Segue(IF a.segue
                   THEN api_update_my_password(Bancos, token.jwt.id_usuario, data, {})
                   ELSE [bancos |-> a.bancos, resp |-> a.resp])
    /\ UNCHANGED <<ctx, deletados>>

TokenAdminDeleteUser ==
    /\ \E token \in TokensEmitidos, user_id \in {t.jwt.id_usuario : t \in TokensEmitidos} :
          Segue(api_admin_delete_user(Bancos, user_id, token, {}))
    /\ UNCHANGED <<ctx, deletados>>

TokenAdminSearchUsers ==
    /\ \E token \in TokensEmitidos, q \in TermosBusca :
          Segue(api_admin_search_users(Bancos, q, token))
    /\ UNCHANGED <<ctx, deletados>>

\* The requests of POST /reset-password: the reset tokens /forgot-password
\* has handed out or can, and the access tokens, which it must refuse.
ResetPasswordRequest ==
    {[token |-> t, new_password |-> "senha-nova"] :
        t \in {create_password_reset_token(a.jwt.id_usuario) : a \in TokensEmitidos}
                 \cup TokensEmitidos}

ResetPassword ==
    /\ \E request \in ResetPasswordRequest : Segue(api_reset_password(Bancos, request, {}))
    /\ UNCHANGED <<ctx, deletados>>

NextTokens ==
    \/ ResetPassword
    \/ TokenCriarEvento
    \/ TokenObterAgenda
    \/ TokenGetSingleEvent
    \/ TokenAtualizarEvento
    \/ TokenDeletarEvento
    \/ GetMyProfile
    \/ UpdateMyProfile
    \/ TokenUpdateMyPassword
    \/ TokenAdminDeleteUser
    \/ TokenAdminSearchUsers

SpecTokens == InitTokens /\ [][NextTokens]_vars

\* ------------------------------------ the machine of the users and groups

\* Every endpoint that writes the table of users, each request whole and with
\* no call raising, on the seeded users and those that register.
\* POST /register, the look-up and the insert as one step.
TokenRegister ==
    /\ prox_usuario <= MaxUsuarios
    /\ \E user \in UserCreate :
          LET a == api_register_user_checa(Bancos, user)
          IN Segue(IF a.segue THEN api_register_user_cria(Bancos, user, {})
                   ELSE [bancos |-> a.bancos, resp |-> a.resp])
    /\ UNCHANGED <<ctx, deletados>>

NextGrupos ==
    \/ TokenRegister
    \/ ForgotPassword
    \/ ResetPassword
    \/ GetMyProfile
    \/ UpdateMyProfile
    \/ TokenUpdateMyPassword
    \/ TokenAdminDeleteUser

SpecGrupos == InitContas /\ [][NextGrupos]_vars

\* ------------------------------------------------------------- the claims

\* The rows of eventos with the identifier a request names.
Linhas(id_evento) == {e \in Range(eventos) : e.id_evento = id_evento}

\* The calls of the relational write of CreateEvent.
EscritaRelacional == {"sp_call", "sp_sem_id", "commit"}

ChamadasCache == {"redis_get", "redis_set", "redis_delete_lista", "redis_delete_item"}

\* C1: ReadSingleEvent by a user on an event another user owns answers
\* not-found and carries no event, whatever came before (the owner having
\* read it included).
C1_LeituraIsolada ==
    (resp.op = "evento" /\ \E e \in Linhas(resp.id_evento) : e.id_usuario # resp.id_usuario)
        => (resp.status = 404 /\ resp.corpo = None)

\* C2: UpdateEvent or DeleteEvent by a user on an event another user owns
\* answers not-found and leaves the rows, the documents and the cache as
\* they were.
C2_EscritaIsolada ==
    [][(resp'.op \in {"atualizar", "deletar"}
            /\ \E e \in Linhas(resp'.id_evento) : e.id_usuario # resp'.id_usuario)
          => (resp'.status = 404 /\ UNCHANGED <<eventos, mongo, redis>>)]_vars

\* A non-owner's update answered 404 while the owner's row, document and both
\* cache entries exist.
C2_Testemunha ==
    /\ resp.op = "atualizar"
    /\ resp.status = 404
    /\ \E e \in Linhas(resp.id_evento) :
          /\ e.id_usuario # resp.id_usuario
          /\ ObjectId(e.mongo_detalhes_id) \in DOMAIN mongo
          /\ cache_key_item(e.id_evento) \in DOMAIN redis
          /\ cache_key_lista(e.id_usuario) \in DOMAIN redis

C4_ErroOriginal ==
    (resp.op = "criar" /\ "delete_one" \in resp.levantou)
        => (resp.detalhe \in EscritaRelacional /\ resp.rollback)

\* C5: after a create, update or delete that answered success, the owner's
\* next read answers what the stores hold now, never what a cache entry older
\* than the write holds.
C5_CacheCoerente ==
    [][(resp.op \in {"criar", "atualizar", "deletar"} /\ resp.status \in {200, 201, 204}
            /\ resp'.id_usuario = resp.id_usuario)
          => /\ resp'.op = "agenda" =>
                   resp'.corpo = ListaEventoResposta(
                                     obter_agenda_do_banco(Bancos, resp'.id_usuario))
             /\ (resp'.op = "evento" /\ resp'.id_evento = resp.id_evento) =>
                   LET evento == get_single_event_by_id(Bancos, resp'.id_evento,
                                                        resp'.id_usuario)
                   IN IF evento = None THEN resp'.status = 404
                      ELSE resp'.status = 200 /\ resp'.corpo = EventoResposta(evento)]_vars

\* The answer of the request p made again on the stores db with the calls F
\* raising.
Refaz(p, db, F) ==
    CASE p.op = "criar" -> api_criar_evento(db, p.entrada, p.id_usuario, F).resp
      [] p.op = "agenda" -> api_obter_agenda(db, p.id_usuario, F).resp
      [] p.op = "evento" -> api_get_single_event(db, p.id_evento, p.id_usuario, F).resp
      [] p.op = "atualizar" ->
            api_atualizar_evento(db, p.id_evento, p.entrada, p.id_usuario, F).resp
      [] p.op = "deletar" -> api_deletar_evento(db, p.id_evento, p.id_usuario, F).resp

\* Two answers a caller cannot tell apart.
MesmaResposta(a, b) ==
    /\ a.status = b.status
    /\ a.detalhe = b.detalhe
    /\ a.corpo = b.corpo

\* C6: an event operation all of whose cache calls raise, the stores working,
\* answers as it does with a working, empty cache.
C6_CacheNuncaFalha ==
    [][(resp'.op \in {"criar", "agenda", "evento", "atualizar", "deletar"}
            /\ resp'.levantou # {} /\ resp'.levantou \subseteq ChamadasCache
            /\ ~resp'.redis_ok)
          => MesmaResposta(resp', Refaz(resp', [Bancos EXCEPT !.redis = <<>>], {}))]_vars

\* C7: every row's document reference is NULL or resolves to a document, and
\* every document is referenced by exactly one row.
C7_DoisBancos ==
    /\ \A e \in Range(eventos) :
          e.mongo_detalhes_id = NULL \/ ObjectId(e.mongo_detalhes_id) \in DOMAIN mongo
    /\ \A oid \in DOMAIN mongo :
          Cardinality({i \in DOMAIN eventos :
                          eventos[i].mongo_detalhes_id = str_oid(oid)}) = 1

\* C8: once DeleteEvent has answered success for an identifier, ReadSingleEvent
\* of it answers not-found for every user, and a second DeleteEvent answers
\* not-found and changes no store.
C8_DeletadoNaoVolta ==
    [][resp'.id_evento \in deletados
          => /\ resp'.op = "evento" => resp'.status = 404
             /\ resp'.op = "deletar" =>
                   (resp'.status = 404 /\ UNCHANGED <<eventos, mongo>>)]_vars

\* The joined event of a request that committed: the identifier, the columns
\* and the document it submitted.
EventoSubmetido(p) ==
    [id_categoria |-> p.entrada.id_categoria,
     titulo |-> p.entrada.titulo,
     data_hora_inicio |-> p.entrada.data_hora_inicio,
     local_evento |-> p.entrada.local_evento,
     id_evento |-> p.id_evento,
     nome_categoria |-> nome_categoria(p.entrada.id_categoria),
     detalhes_mongo |-> ("_id" :> p.mongo_id) @@ p.entrada.dados_mongo]

\* C9: a CreateEvent that committed both writes answers the joined event read
\* back, and the owner's next ReadAgenda holds that event with its document.
C9_CriadoERetornado ==
    [][/\ (resp'.op = "criar" /\ resp'.id_evento # NULL)
             => (resp'.status = 201 /\ resp'.corpo = EventoSubmetido(resp'))
       /\ (resp.op = "criar" /\ resp.id_evento # NULL
              /\ resp'.op = "agenda" /\ resp'.id_usuario = resp.id_usuario)
             => \E i \in DOMAIN resp'.corpo : resp'.corpo[i] = EventoSubmetido(resp)]_vars

\* A login with an email of no user.
EmailDesconhecido(p) == \A u \in usuarios : u.email # p.entrada.username

\* A login with the email of a user and a password that is not theirs.
SenhaErrada(p) ==
    \E u \in usuarios :
        u.email = p.entrada.username /\ ~verify_password(p.entrada.password, u.senha_hash)

\* C10: Authenticate with an email of no user and with an existing email and
\* a wrong password answer the same: 401, the same detail, no body, and no
\* change of any store.
C10_SemEnumeracao ==
    [][(resp'.op = "login" /\ (EmailDesconhecido(resp') \/ SenhaErrada(resp')))
          => /\ resp'.status = 401
             /\ resp'.detalhe = "Email ou senha incorretos."
             /\ resp'.corpo = None
             /\ UNCHANGED <<usuarios, eventos, mongo, redis, prox_evento, prox_oid,
                            prox_usuario>>]_vars

\* A login with an email of no user, answered 401.
C10_Testemunha ==
    /\ resp.op = "login"
    /\ EmailDesconhecido(resp)
    /\ resp.status = 401

\* C16: right after a ReadAgenda of a user that the cache answered or took,
\* a second ReadAgenda of that user answers what the first answered, from the
\* cache and without a query or a change of the stores; so it is for an empty
\* agenda too.
C16_SegundaLeitura ==
    (resp.op = "agenda" /\ resp.levantou = {})
        => LET segunda == api_obter_agenda(Bancos, resp.id_usuario, {})
           IN /\ segunda.resp.cache_hit
              /\ segunda.resp.status = 200
              /\ segunda.resp.corpo = resp.corpo
              /\ segunda.bancos = Bancos

\* A ReadAgenda answered from the cache with an empty agenda.
C16_Testemunha ==
    /\ resp.op = "agenda"
    /\ resp.cache_hit
    /\ resp.corpo = <<>>
    /\ obter_agenda_do_banco(Bancos, resp.id_usuario) = <<>>

\* The calls of the write phase of UpdateEvent and of DeleteEvent.
EscritaAtualizar == {"sql_update", "replace_one", "commit"}
EscritaDeletar == {"sql_delete", "delete_one", "commit"}

\* C18: when the relational update, the document replace or the commit of
\* UpdateEvent raises, the transaction is rolled back and the rows are as they
\* were, the caller gets the error, and no cache entry is deleted.
C18_FalhaNaAtualizacao ==
    [][(resp'.op = "atualizar" /\ resp'.levantou \cap EscritaAtualizar # {})
          => /\ resp'.rollback
             /\ eventos' = eventos
             /\ resp'.status = 500
             /\ resp'.detalhe \in resp'.levantou
             /\ redis' = redis]_vars

\* An UpdateEvent whose commit raised, while both cache entries of the event
\* are there.
C18_Testemunha ==
    /\ resp.op = "atualizar"
    /\ resp.levantou = {"commit"}
    /\ resp.status = 500
    /\ cache_key_lista(resp.id_usuario) \in DOMAIN redis
    /\ cache_key_item(resp.id_evento) \in DOMAIN redis

\* C19: when the relational delete, the document delete or the commit of
\* DeleteEvent raises, the row is still there and its document reference
\* resolves as it did.
C19_FalhaNaDelecao ==
    [][(resp'.op = "deletar" /\ resp'.levantou \cap EscritaDeletar # {})
          => \A e \in Linhas(resp'.id_evento) :
                /\ e \in Range(eventos')
                /\ (e.mongo_detalhes_id # NULL /\ ObjectId(e.mongo_detalhes_id) \in DOMAIN mongo)
                      => /\ ObjectId(e.mongo_detalhes_id) \in DOMAIN mongo'
                         /\ mongo'[ObjectId(e.mongo_detalhes_id)]
                               = mongo[ObjectId(e.mongo_detalhes_id)]]_vars

\* An UpdateEvent whose write was committed: answered with the event, or with
\* the 404 of an event the view of future events no longer holds.
Atualizou(p) ==
    /\ p.op = "atualizar"
    /\ p.status = 200 \/ p.detalhe = "Evento nao encontrado apos a atualizacao."

\* C20: an UpdateEvent that succeeds on a row with a document leaves the
\* document with the new payload's keys and values and no other; on a row
\* whose reference is NULL it makes no document and the reference stays NULL.
C20_SubstituiDocumento ==
    [][Atualizou(resp')
          => \A e \in Linhas(resp'.id_evento) :
                IF e.mongo_detalhes_id = NULL
                THEN /\ mongo' = mongo
                     /\ \A n \in Range(eventos') :
                           n.id_evento = e.id_evento => n.mongo_detalhes_id = NULL
                ELSE ObjectId(e.mongo_detalhes_id) \in DOMAIN mongo
                        => /\ DOMAIN mongo' = DOMAIN mongo
                           /\ mongo'[ObjectId(e.mongo_detalhes_id)] = resp'.entrada.dados_mongo]_vars

\* An UpdateEvent answered success after which the document that had the key
\* speaker has the new payload's key room alone.
C20_Testemunha ==
    /\ resp.op = "atualizar"
    /\ resp.status = 200
    /\ resp.entrada = Revisao
    /\ \E e \in Linhas(resp.id_evento) :
          /\ e.mongo_detalhes_id # NULL
          /\ ObjectId(e.mongo_detalhes_id) \in DOMAIN mongo
          /\ DOMAIN mongo[ObjectId(e.mongo_detalhes_id)] = {"room"}

\* Every entry of the cache is what the stores hold now: an agenda entry the
\* user's agenda, an event entry the event as its owner reads it.
CacheAtual ==
    \A k \in DOMAIN redis :
        /\ k[1] = "agenda" => redis[k] = json_dumps_lista(obter_agenda_do_banco(Bancos, k[2]))
        /\ k[1] = "evento" =>
              \E u \in get_current_user_id :
                  /\ get_single_event_by_id(Bancos, k[2], u) # None
                  /\ redis[k] = json_dumps(get_single_event_by_id(Bancos, k[2], u))

\* C17: whatever the interleaving of a read with an UpdateEvent or DeleteEvent
\* on the same event, once both have completed the cache holds no entry taken
\* from the stores before the write.
C17_CacheSemVelho ==
    ctx = <<>> => CacheAtual

\* A step that starts a request, or is the whole of it: no request in flight
\* has ended.
PrimeiroPasso == DOMAIN ctx \subseteq DOMAIN ctx'

\* C11: the forgot-password operation answers an email of a registered user as
\* it answers an email of no user.
C11_RespostaUnica ==
    resp.op = "forgot"
        => MesmaResposta(resp, api_forgot_password(Bancos, [email |-> "nobody@x.io"]).resp)

\* C12: Register with an email that belongs to a user when the request looks
\* it up answers the duplicate-email conflict and leaves the user table as it
\* was.
C12_EmailDuplicado ==
    [][(resp'.op = "register" /\ PrimeiroPasso
            /\ \E u \in usuarios : u.email = resp'.entrada.email)
          => /\ resp'.status = 400
             /\ resp'.detalhe = "Email ja registrado."
             /\ UNCHANGED <<usuarios, prox_usuario>>]_vars

\* A Register with the email of a user, answered 400.
C12_Testemunha ==
    /\ resp.op = "register"
    /\ resp.status = 400
    /\ \E u \in usuarios : u.email = resp.entrada.email

\* C13: no two rows of usuarios have the same email, the states between the
\* look-up and the insert of concurrent Register calls included.
C13_EmailUnico ==
    \A u, v \in usuarios : u.email = v.email => u = v

\* C14: UpdatePassword changes the stored hash only when old_password verifies
\* against the hash stored now, and then to the hash of new_password; on a
\* mismatch or a user that is not there it answers false (the 400) and the
\* table is as it was.
C14_SenhaSoSeVerifica ==
    [][(resp'.op = "senha" /\ ~PrimeiroPasso)
          => LET user == get_user_by_id_in_db(Bancos, resp'.id_usuario)
                 verifica == /\ user # None
                             /\ verify_password(resp'.entrada.old_password, user.senha_hash)
             IN /\ usuarios' # usuarios =>
                      /\ verifica
                      /\ usuarios' = (usuarios \ {user}) \cup
                            {[user EXCEPT !.senha_hash =
                                 get_password_hash(resp'.entrada.new_password)]}
                /\ ~verifica =>
                      /\ resp'.status = 400
                      /\ UNCHANGED usuarios
                      /\ resp'.entrada.old_password # resp'.entrada.new_password
                            => resp'.detalhe = "Senha antiga incorreta."]_vars

\* An UpdatePassword with an old password that is not the user's, answered 400.
C14_Testemunha ==
    /\ resp.op = "senha"
    /\ resp.status = 400
    /\ resp.detalhe = "Senha antiga incorreta."
    /\ \E u \in usuarios :
          /\ u.id_usuario = resp.id_usuario
          /\ ~verify_password(resp.entrada.old_password, u.senha_hash)

\* C15: DeleteUser by an administrator with their own identifier is rejected
\* and changes no row; no DeleteUser removes the row of the user who calls it.
C15_AdminNaoSeDeleta ==
    [][resp'.op = "deletar_usuario"
          => /\ (resp'.entrada.user_id = resp'.id_usuario
                    /\ \E u \in usuarios : u.id_usuario = resp'.id_usuario /\ u.id_grupo = 1)
                   => (resp'.status = 400 /\ UNCHANGED usuarios)
             /\ \A u \in usuarios : u.id_usuario = resp'.id_usuario => u \in usuarios']_vars

\* An administrator's DeleteUser on themselves, answered 400, the row there.
C15_Testemunha ==
    /\ resp.op = "deletar_usuario"
    /\ resp.status = 400
    /\ resp.entrada.user_id = resp.id_usuario
    /\ \E u \in usuarios : u.id_usuario = resp.id_usuario /\ u.id_grupo = 1

\* The user's future rows of eventos, in the table's order.
LinhasFuturasDe(id_usuario) ==
    SelectSeq(eventos, LAMBDA e : e.id_usuario = id_usuario
                                    /\ e.data_hora_inicio \in Futuras)

\* The document facet of a row: the document its reference names, with the
\* reference as its "_id", or None when the row has no reference or the
\* collection has no such document.
FacetaDocumento(e) ==
    IF e.mongo_detalhes_id = NULL THEN None
    ELSE IF \E o \in DOMAIN mongo : str_oid(o) = e.mongo_detalhes_id
    THEN LET o == CHOOSE x \in DOMAIN mongo : str_oid(x) = e.mongo_detalhes_id
         IN ("_id" :> e.mongo_detalhes_id) @@ mongo[o]
    ELSE None

C21_TestemunhaVazia ==
    /\ resp.op = "agenda" /\ ~resp.cache_hit
    /\ eventos # <<>>
    /\ resp.corpo = <<>>

\* The requests of the operations that require the admin group.
OperacoesAdmin == {"deletar_usuario", "buscar_usuarios"}

\* C22: SearchUsers and DeleteUser asked by an authenticated user whose group
\* is not admin answer 403 Forbidden with no body, and no user record changes.
C22_SoAdmin ==
    [][(/\ resp'.op \in OperacoesAdmin
        /\ \E u \in usuarios : u.id_usuario = resp'.id_usuario /\ u.id_grupo # 1)
       => (/\ resp'.status = 403
           /\ resp'.corpo = None
           /\ usuarios' = usuarios)]_vars

\* A standard user asked to delete another user there is, and got the 403.
C22_Testemunha ==
    /\ resp.op = "deletar_usuario"
    /\ resp.status = 403
    /\ \E u \in usuarios : u.id_usuario = resp.id_usuario /\ u.id_grupo = 2
    /\ \E u \in usuarios : u.id_usuario = resp.entrada.user_id
                             /\ u.id_usuario # resp.id_usuario

\* A standard user searched a term that matches users, and got the 403.
C22_TestemunhaBusca ==
    /\ resp.op = "buscar_usuarios"
    /\ resp.status = 403
    /\ \E u \in usuarios : u.id_usuario = resp.id_usuario /\ u.id_grupo = 2
    /\ search_users(Bancos, resp.entrada.q) # {}

\* The administrator searched and got the matching users.
C22_TestemunhaAdmin ==
    /\ resp.op = "buscar_usuarios"
    /\ resp.status = 200
    /\ resp.corpo # {}

\* The row and the document a CreateEvent request left in the stores.
LinhaCriada ==
    {e \in Range(eventos) : resp.mongo_id # NULL /\ e.mongo_detalhes_id = resp.mongo_id}
DocumentoCriado ==
    {o \in DOMAIN mongo : resp.mongo_id # NULL /\ str_oid(o) = resp.mongo_id}

\* C23: whenever CreateEvent answers an error, neither a row nor a document
\* that the request created is in the stores.
C23_TudoOuNada ==
    (resp.op = "criar" /\ resp.status # 201) =>
        (LinhaCriada = {} /\ DocumentoCriado = {})

\* The three ways a failed CreateEvent leaves something: the cache delete
\* raised after the commit (C6), the row committed is not in the view of
\* future events (C9), the compensating delete_one raised (C3, C4).
C23_ErroDepoisDoCommit ==
    /\ resp.op = "criar" /\ resp.status = 500
    /\ resp.levantou = {"redis_delete_lista"}
    /\ LinhaCriada # {} /\ DocumentoCriado # {}
C23_ErroNaReleitura ==
    /\ resp.op = "criar" /\ resp.status = 500
    /\ resp.levantou = {}
    /\ LinhaCriada # {} /\ DocumentoCriado # {}
C23_ErroNaCompensacao ==
    /\ resp.op = "criar" /\ resp.status = 500
    /\ "delete_one" \in resp.levantou
    /\ LinhaCriada = {} /\ DocumentoCriado # {}

\* The requests of the machine of two writing requests that have answered.
Respondeu(p) == p \in DOMAIN ctx /\ ctx[p].pc = "fim"

\* The row and the document of the event are those of the update of p.
FacetasDe(p) ==
    \A e \in Linhas(ctx[p].id_evento) :
        /\ e.titulo = ctx[p].entrada.titulo
        /\ e.id_categoria = ctx[p].entrada.id_categoria
        /\ e.data_hora_inicio = ctx[p].entrada.data_hora_inicio
        /\ e.local_evento = ctx[p].entrada.local_evento
        /\ \A o \in DOMAIN mongo :
              str_oid(o) = e.mongo_detalhes_id => mongo[o] = ctx[p].entrada.dados_mongo

\* C24: once two concurrent UpdateEvent requests of the owner on one event
\* have both answered 200, the row's columns and the document's content are
\* those of one and the same of the two updates.
C24_MesmaAtualizacao ==
    (/\ \A p \in Procs : Respondeu(p) /\ ctx[p].op = "atualizar" /\ ctx[p].status = 200
     /\ ctx["p1"].id_evento = ctx["p2"].id_evento)
        => \E p \in Procs : FacetasDe(p)

\* Two updates with different columns and documents have both answered 200,
\* one of them having begun while the other held the row.
C24_Testemunha ==
    /\ \A p \in Procs : Respondeu(p) /\ ctx[p].op = "atualizar" /\ ctx[p].status = 200
    /\ ctx["p1"].entrada.titulo # ctx["p2"].entrada.titulo
    /\ ctx["p1"].entrada.dados_mongo # ctx["p2"].entrada.dados_mongo
    /\ \E p \in Procs : ctx[p].esperou
    /\ Linhas("1") # {} /\ mongo # <<>>

\* C25: once a DeleteEvent has committed and it and an UpdateEvent on the same
\* event have both answered, the event has neither a row nor a document.
C25_NaoRessuscita ==
    (/\ \A p \in Procs : Respondeu(p)
     /\ \E d, u \in Procs :
           /\ ctx[d].op = "deletar" /\ ctx[d].commitou
           /\ ctx[u].op = "atualizar" /\ ctx[u].id_evento = ctx[d].id_evento)
        => \A d \in Procs :
              (ctx[d].op = "deletar" /\ ctx[d].commitou)
                 => /\ Linhas(ctx[d].id_evento) = {}
                    /\ ctx[d].mongo_id # NULL
                          => \A o \in DOMAIN mongo : str_oid(o) # ctx[d].mongo_id

\* An update found the row, the delete committed, and then the update's UPDATE
\* matched no row, its replace_one and commit went through, and both answered.
C25_Testemunha ==
    /\ \A p \in Procs : Respondeu(p)
    /\ \E d, u \in Procs :
          /\ ctx[d].op = "deletar" /\ ctx[d].commitou /\ ctx[d].status = 204
          /\ ctx[u].op = "atualizar" /\ ctx[u].mongo_id # NULL
          /\ ctx[u].commitou /\ ctx[u].rowcount = 0

\* The requests of the endpoints that take a bearer token.
OperacoesComToken ==
    {"criar", "agenda", "evento", "atualizar", "deletar", "perfil", "nome", "senha",
     "deletar_usuario", "buscar_usuarios"}

\* C26: a request that presents the access token of a user DeleteUser has
\* removed (the only way a user of the machine leaves the table) answers 401
\* with no body and leaves the users, the events, the documents and the cache
\* as they were.
C26_TokenDeRemovido ==
    [][(/\ resp'.op \in OperacoesComToken
        /\ \A u \in usuarios : u.id_usuario # resp'.id_usuario)
       => (/\ resp'.status = 401
           /\ resp'.corpo = None
           /\ UNCHANGED <<usuarios, eventos, mongo, redis>>)]_vars

\* The removed user's token asked for the agenda, the user's event and its
\* document being in the stores and the agenda in the cache: the 401.
C26_Testemunha ==
    /\ resp.op = "agenda"
    /\ resp.status = 401
    /\ \A u \in usuarios : u.id_usuario # resp.id_usuario
    /\ \E e \in Range(eventos) : e.id_usuario = resp.id_usuario
    /\ mongo # <<>>
    /\ cache_key_lista(resp.id_usuario) \in DOMAIN redis

\* The removed user's token asked to update the user's event: the 401.
C26_TestemunhaEscrita ==
    /\ resp.op = "atualizar"
    /\ resp.status = 401
    /\ \A u \in usuarios : u.id_usuario # resp.id_usuario
    /\ \E e \in Range(eventos) : e.id_usuario = resp.id_usuario
                                   /\ e.id_evento = resp.id_evento

\* The administrators: the users of group 1.
Administradores(tabela) == {u.id_usuario : u \in {x \in tabela : x.id_grupo = 1}}

\* C27: no request adds an administrator: a user is in group 1 after a step
\* only if the same user was in group 1 before it, so a user Register inserts
\* is in the standard group and no request changes a user's group.
C27_SemEscalada ==
    [][/\ Administradores(usuarios') \subseteq Administradores(usuarios)
       /\ \A u \in usuarios, v \in usuarios' :
             u.id_usuario = v.id_usuario => u.id_grupo = v.id_grupo]_vars

\* A registered user there is, in the standard group, whose name and password
\* were changed, next to the administrator.
C27_Testemunha ==
    /\ resp.op \in {"nome", "senha", "reset"}
    /\ resp.status \in {200, 204}
    /\ \E u \in usuarios :
          /\ u.id_usuario \notin {s.id_usuario : s \in UsuariosSemeados}
          /\ u.id_usuario = resp.id_usuario
          /\ u.id_grupo = 2
    /\ Administradores(usuarios) = {"root"}

====
